---- MODULE Spec2Model ----
(***************************************************************************)
(* Authentication and email-verification state machine of the workout-app  *)
(* backend: the Postgres store (users, email_verifications), the auth and  *)
(* user use cases running in concurrent request workers, the verification  *)
(* engine VerifyCode, and the outbound email collaborator.                 *)
(* Every store call and every email send is one atomic step of a worker.   *)
(***************************************************************************)
EXTENDS Integers, Sequences, FiniteSets, TLC

\* ------------------------------------------------------------------------
\* Bounds of the model
\* ------------------------------------------------------------------------
MaxTime == 2
MaxVerifs == 2
MaxAttemptsBound == 2
MaxJti == 2
MaxChangeVid == 3

\* ------------------------------------------------------------------------
\* Input domains
\* ------------------------------------------------------------------------
AllWorkers == {"w1", "w2", "w3"}
UserIds == {"u1", "u2"}
Emails == {"a@x.com", "b@x.com"}
Usernames == {"alice", "bob"}
RawPassword == "Password123!"
LoginPasswords == {RawPassword, "wrong"}
Codes == {"111111", "222222"}
NULL == "NULL"

\* one clock unit is the configured EMAIL_VERIFICATION_TTL
verificationTTL == 1

VARIABLES
    users,        \* rows of table users
    verifs,       \* rows of table email_verifications
    nextVid,      \* BIGSERIAL sequence of email_verifications.id
    now,          \* wall clock
    outbox,       \* email collaborator: last code delivered to each address
    sends,        \* email collaborator: number of messages accepted
    tokens,       \* token pairs returned to clients
    maxAttempts,  \* configured EMAIL_VERIFICATION_MAX_ATTEMPTS
    wk,           \* per worker: the request being served and its locals
    res,          \* per worker: the result of the last finished request
    confirmed,    \* observer: users whose email ownership a check has accepted
    issued,       \* observer: per record id, what was issued and the checks it saw
    cfg,          \* configuration the service runs with: jwt block, SMTP host
    nextJti,      \* number of the next uuid drawn for a refresh token
    log,          \* entries written to the logger by the email senders
    health        \* the HealthDB requests: handler, Ping goroutine, errCh, ctx

vars == <<users, verifs, nextVid, now, outbox, sends, tokens, maxAttempts, wk, res,
          confirmed, issued, cfg, nextJti, log, health>>

\* ------------------------------------------------------------------------
\* pkg/password: adaptive one-way hash and comparison
\* ------------------------------------------------------------------------
Hash(secret) == <<"bcrypt", secret>>

Compare(digest, secret) == digest[2] = secret

\* ------------------------------------------------------------------------
\* domain
\* ------------------------------------------------------------------------
NewUser(id, email, passwordHash, username) ==
    [ID |-> id, Email |-> email, PasswordHash |-> passwordHash,
     Username |-> username, Role |-> "user",
     IsEmailVerified |-> FALSE, Deleted |-> FALSE]

\* ------------------------------------------------------------------------
\* postgres.UserRepository
\* ------------------------------------------------------------------------
\* an INSERT that stores the email as verified
fromDomainVerified(u) ==
    [id |-> u.ID, email |-> u.Email, password_hash |-> u.PasswordHash,
     username |-> u.Username, role |-> u.Role,
     is_email_verified |-> TRUE, deleted |-> u.Deleted]

\* columns written by an INSERT of pgUser; is_email_verified keeps its default
fromDomain(u) ==
    [id |-> u.ID, email |-> u.Email, password_hash |-> u.PasswordHash,
     username |-> u.Username, role |-> u.Role,
     is_email_verified |-> FALSE, deleted |-> u.Deleted]

\* pgUser has no is_email_verified field: the domain flag is the zero value
toDomain(m) ==
    [ID |-> m.id, Email |-> m.email, PasswordHash |-> m.password_hash,
     Username |-> m.username, Role |-> m.role,
     IsEmailVerified |-> FALSE, Deleted |-> m.deleted]

ActiveRows == {m \in users : ~m.deleted}

\* unique partial indexes idx_users_email_unique / idx_users_username_unique
EmailTaken(email, exceptId) ==
    \E m \in ActiveRows : m.email = email /\ m.id # exceptId

UsernameTaken(username, exceptId) ==
    \E m \in ActiveRows : m.username = username /\ m.id # exceptId

\* error of UserRepository.Create ("ok" when the row is inserted)
CreateErr(u) ==
    IF EmailTaken(u.Email, u.ID) THEN "ErrEmailExists"
    ELSE IF UsernameTaken(u.Username, u.ID) THEN "ErrUsernameExists"
    ELSE "ok"

CreateRows(u) ==
    IF CreateErr(u) = "ok" THEN users \cup {fromDomain(u)} ELSE users

\* a lookup without the deleted_at IS NULL condition of oneByCondition
GetByIDAnyRow(id) == {toDomain(m) : m \in {r \in users : r.id = id}}

\* the set holds the user found, or is empty for ErrNotFound
GetByID(id) == {toDomain(m) : m \in {r \in ActiveRows : r.id = id}}

GetByEmail(email) == {toDomain(m) : m \in {r \in ActiveRows : r.email = email}}

GetByUsername(username) == {toDomain(m) : m \in {r \in ActiveRows : r.username = username}}

\* the users that List returns (their order, by created_at, is left out)
List == {toDomain(m) : m \in ActiveRows}

\* the updates map of UserRepository.Update
UpdateColumns(m, u) ==
    [m EXCEPT !.email = u.Email, !.username = u.Username, !.role = u.Role]

\* Update on a schema without idx_users_username_unique
UpdateErrNoUsernameIndex(u) ==
    IF ~\E m \in ActiveRows : m.id = u.ID THEN "ErrNotFound"
    ELSE IF EmailTaken(u.Email, u.ID) THEN "ErrEmailExists"
    ELSE "ok"

UpdateErr(u) ==
    IF ~\E m \in ActiveRows : m.id = u.ID THEN "ErrNotFound"
    ELSE IF EmailTaken(u.Email, u.ID) THEN "ErrEmailExists"
    ELSE IF UsernameTaken(u.Username, u.ID) THEN "ErrUsernameExists"
    ELSE "ok"

\* an UPDATE without the deleted_at IS NULL condition
UpdateRowsAnyRow(u) ==
    {IF m.id = u.ID THEN UpdateColumns(m, u) ELSE m : m \in users}

UpdateRows(u) ==
    IF UpdateErr(u) = "ok"
    THEN {IF m.id = u.ID /\ ~m.deleted THEN UpdateColumns(m, u) ELSE m : m \in users}
    ELSE users

\* ------------------------------------------------------------------------
\* postgres.EmailVerificationRepository
\* ------------------------------------------------------------------------
Newest(S) == {v \in S : \A o \in S : o.id <= v.id}

GetActiveByUserID(userID) ==
    Newest({v \in verifs : v.userID = userID /\ v.expiresAt > now /\ v.newEmail = NULL})

GetActiveEmailChangeByUserID(userID) ==
    Newest({v \in verifs : v.userID = userID /\ v.newEmail # NULL /\ v.expiresAt > now})

VerifGetByID(id) == {v \in verifs : v.id = id}

IncrementAttempts(id) ==
    {IF v.id = id THEN [v EXCEPT !.attempts = @ + 1] ELSE v : v \in verifs}

\* fault: the DELETE matches no row
DeleteByUserIDNoRows(userID) == verifs

DeleteByUserID(userID) == {v \in verifs : v.userID # userID}

\* fault: the DELETE lacks the new_email IS NOT NULL condition
DeleteEmailChangeByUserIDAnyPurpose(userID) ==
    {v \in verifs : v.userID # userID}

DeleteEmailChangeByUserID(userID) ==
    {v \in verifs : ~(v.userID = userID /\ v.newEmail # NULL)}

NewVerificationNoTTL(userID, code, newEmail) ==
    [id |-> nextVid, userID |-> userID, codeHash |-> Hash(code),
     expiresAt |-> now, attempts |-> 0,
     maxAttempts |-> maxAttempts, createdAt |-> now, newEmail |-> newEmail]

NewVerification(userID, code, newEmail) ==
    [id |-> nextVid, userID |-> userID, codeHash |-> Hash(code),
     expiresAt |-> now + verificationTTL, attempts |-> 0,
     maxAttempts |-> maxAttempts, createdAt |-> now, newEmail |-> newEmail]

\* ------------------------------------------------------------------------
\* jwt.Service
\* ------------------------------------------------------------------------
One(S) == CHOOSE x \in S : TRUE

AccessSecret == "access-secret"
RefreshSecret == "refresh-secret"
Issuer == "workout-app"
AccessTTL == 1
RefreshTTL == 2

\* EMAIL_SMTP_HOST of a deployment that sends mail
SMTPHost == "smtp.x.com"

\* the configuration the service is started with
JWTConfig ==
    [AccessSecret |-> AccessSecret, RefreshSecret |-> RefreshSecret,
     AccessTTL |-> AccessTTL, RefreshTTL |-> RefreshTTL, Issuer |-> Issuer,
     SMTPHost |-> SMTPHost]

\* uuid.New(): a value no earlier call returned
NewJti == ToString(nextJti)

\* encoding/json on jwt.Claims: the key "sub" belongs to the outer field
\* UserID; RegisteredClaims.Subject carries the same key one level deeper and
\* is therefore neither written nor read
MarshalClaims(c) ==
    [sub |-> c.UserID, email |-> c.Email, username |-> c.Username,
     role |-> c.Role, email_verified |-> c.EmailVerified, iss |-> c.Issuer,
     jti |-> c.ID, iat |-> c.IssuedAt, exp |-> c.ExpiresAt]

UnmarshalClaims(j) ==
    [UserID |-> j.sub, Email |-> j.email, Username |-> j.username,
     Role |-> j.role, EmailVerified |-> j.email_verified, Issuer |-> j.iss,
     Subject |-> "", ID |-> j.jti, IssuedAt |-> j.iat, ExpiresAt |-> j.exp]

\* HS256: the signature is determined by the payload and the secret
SignedString(claims, secret) == [sig |-> secret, payload |-> MarshalClaims(claims)]

GenerateAccessToken(u) ==
    SignedString([UserID |-> u.ID, Email |-> u.Email, Username |-> u.Username,
                  Role |-> u.Role, EmailVerified |-> u.IsEmailVerified,
                  Issuer |-> cfg.Issuer, Subject |-> u.ID, ID |-> "",
                  IssuedAt |-> now, ExpiresAt |-> now + cfg.AccessTTL],
                 cfg.AccessSecret)

\* the token and its jti
GenerateRefreshToken(u) ==
    <<SignedString([UserID |-> u.ID, Email |-> u.Email, Username |-> u.Username,
                    Role |-> u.Role, EmailVerified |-> u.IsEmailVerified,
                    Issuer |-> cfg.Issuer, Subject |-> u.ID, ID |-> NewJti,
                    IssuedAt |-> now, ExpiresAt |-> now + cfg.RefreshTTL],
                   cfg.RefreshSecret),
      NewJti>>

\* jwt.ParseWithClaims: the signature is verified first, then the expiry
ParseWithClaims(t, secret) ==
    IF t.sig # secret THEN [err |-> "ErrTokenSignatureInvalid", claims |-> {}]
    ELSE IF ~(now < t.payload.exp) THEN [err |-> "ErrTokenExpired", claims |-> {}]
    ELSE [err |-> "nil", claims |-> {UnmarshalClaims(t.payload)}]

parseTokenStrictIssuer(t, secret) ==
    LET parsed == ParseWithClaims(t, secret)
    IN IF parsed.err # "nil" THEN parsed
       ELSE IF /\ cfg.Issuer # ""
               /\ One(parsed.claims).Issuer # cfg.Issuer
       THEN [err |-> "ErrTokenInvalidIssuer", claims |-> {}]
       ELSE parsed

parseToken(t, secret) ==
    LET parsed == ParseWithClaims(t, secret)
    IN IF parsed.err # "nil" THEN parsed
       ELSE IF /\ One(parsed.claims).Issuer # ""
               /\ cfg.Issuer # ""
               /\ One(parsed.claims).Issuer # cfg.Issuer
       THEN [err |-> "ErrTokenInvalidIssuer", claims |-> {}]
       ELSE parsed

ParseAccessToken(t) == parseToken(t, cfg.AccessSecret)

ParseRefreshToken(t) == parseToken(t, cfg.RefreshSecret)

TokenPair(u) == {GenerateAccessToken(u), GenerateRefreshToken(u)[1]}

\* ------------------------------------------------------------------------
\* workers
\* ------------------------------------------------------------------------

Idle ==
    [pc |-> "idle", op |-> "none", email |-> "", code |-> "",
     user |-> {}, v |-> {}, sent |-> "", token |-> {}, at |-> 0, by |-> {},
     before |-> {}]

NoRes ==
    [op |-> "none", out |-> "none", user |-> "", email |-> "", vid |-> 0,
     code |-> "", tokens |-> {}, stored |-> FALSE, token |-> {}, claims |-> {},
     input |-> {}, by |-> {}, writes |-> <<>>, ran |-> {}, header |-> {},
     role |-> "", value |-> <<>>]

Result(op, out) == [NoRes EXCEPT !.op = op, !.out = out]

\* the request returns r to its caller
Finish(w, r) ==
    /\ wk' = [wk EXCEPT ![w] = [Idle EXCEPT !.pc = "done"]]
    /\ res' = [res EXCEPT ![w] = r]

Goto(w, l) ==
    /\ wk' = [wk EXCEPT ![w] = l]
    /\ UNCHANGED res

\* the worker is free for the next request
Return(w) ==
    /\ wk[w].pc = "done"
    /\ wk' = [wk EXCEPT ![w] = Idle]
    /\ res' = [res EXCEPT ![w] = NoRes]
    /\ UNCHANGED <<users, verifs, nextVid, now, outbox, sends, tokens, maxAttempts, confirmed, issued, cfg, nextJti, log, health>>

FreshUserIds == {id \in UserIds : ~\E m \in users : m.id = id}

\* SMTPSender.SendEmailVerificationCode: the entry logged after the mail went out
SMTPSenderLog(email, code) ==
    [msg |-> "verification email sent", email |-> email, code |-> ""]

\* loggerEmailSender.SendEmailVerificationCode
loggerEmailSenderLog(email, code) ==
    [msg |-> "Email verification code sent", email |-> email, code |-> code]

\* mailer.EmailSender.SendEmailVerificationCode, by the sender NewServer picked
SendEmailVerificationCode(email, code) ==
    /\ outbox' = [outbox EXCEPT ![email] = code]
    /\ sends' = sends + 1
    /\ log' = log \cup {IF cfg.SMTPHost # "" THEN SMTPSenderLog(email, code)
                                            ELSE loggerEmailSenderLog(email, code)}

\* SMTPSender.SendEmailVerificationCode when smtp.SendMail returns an error:
\* the error is logged and returned, nothing is delivered
SMTPSenderErrorLog(email) ==
    [msg |-> "failed to send verification email", email |-> email, code |-> ""]

\* only the SMTP sender can fail; loggerEmailSender always returns nil
SendEmailVerificationCodeError(email) ==
    /\ cfg.SMTPHost # ""
    /\ log' = log \cup {SMTPSenderErrorLog(email)}
    /\ UNCHANGED <<outbox, sends>>

\* observer bookkeeping: a record is issued, a wrong code is checked against
\* it, the attempts-exceeded outcome is returned for it
Issue(v, via) ==
    Append(issued, [userID |-> v.userID, via |-> via, tries |-> 0, exceeded |-> FALSE])

Tried(id) == [issued EXCEPT ![id].tries = @ + 1]

Exceeded(id) == [issued EXCEPT ![id].exceeded = TRUE]

\* ------------------------------------------------------------------------
\* handler/health: HealthDB
\* ------------------------------------------------------------------------
Requests == {"r1", "r2"}

\* errCh := make(chan error, 1)
ErrChCap == 1

\* a request that has not reached the handler; db and appEnv are the fields
\* of the Handler
NoRequest(db, appEnv) ==
    [pc |-> "idle", go |-> "none", errCh |-> <<>>, ctx |-> "live", ping |-> "",
     db |-> db, appEnv |-> appEnv, status |-> 0, message |-> <<>>, from |-> ""]

Init ==
    /\ users = {}
    /\ verifs = {}
    /\ nextVid = 1
    /\ now = 0
    /\ outbox = [e \in Emails |-> ""]
    /\ sends = 0
    /\ tokens = {}
    /\ maxAttempts \in 1..MaxAttemptsBound
    /\ wk = [w \in AllWorkers |-> Idle]
    /\ res = [w \in AllWorkers |-> NoRes]
    /\ confirmed = {}
    /\ issued = <<>>
    /\ cfg = JWTConfig
    /\ nextJti = 1
    /\ log = {}
    /\ health = [r \in Requests |-> NoRequest("set", "production")]

Tick ==
    /\ now < MaxTime
    /\ now' = now + 1
    /\ UNCHANGED <<users, verifs, nextVid, outbox, sends, tokens, maxAttempts, wk, res, confirmed, issued, cfg, nextJti, log, health>>

\* ------------------------------------------------------------------------
\* usecase/auth: Register
\* ------------------------------------------------------------------------
RegisterCreateUser(w, email, username) ==
    /\ wk[w].pc = "idle"
    /\ FreshUserIds # {}
    /\ LET user == NewUser(One(FreshUserIds), email, Hash(RawPassword), username)
       IN /\ users' = CreateRows(user)
          /\ IF CreateErr(user) # "ok"
             THEN Finish(w, [Result("Register", CreateErr(user)) EXCEPT !.email = email])
             ELSE Goto(w, [Idle EXCEPT !.pc = "reg_verif", !.op = "Register",
                                       !.email = email, !.user = {user}])
    /\ UNCHANGED <<verifs, nextVid, now, outbox, sends, tokens, maxAttempts, confirmed, issued, cfg, nextJti, log, health>>

RegisterCreateVerification(w, code) ==
    /\ wk[w].pc = "reg_verif"
    /\ nextVid <= MaxVerifs
    /\ verifs' = verifs \cup {NewVerification(One(wk[w].user).ID, code, NULL)}
    /\ nextVid' = nextVid + 1
    /\ issued' = Issue(NewVerification(One(wk[w].user).ID, code, NULL), "Register")
    /\ Goto(w, [wk[w] EXCEPT !.pc = "reg_send", !.sent = code])
    /\ UNCHANGED <<users, now, outbox, sends, tokens, maxAttempts, confirmed, cfg, nextJti, log, health>>

RegisterSend(w) ==
    /\ wk[w].pc = "reg_send"
    /\ SendEmailVerificationCode(One(wk[w].user).Email, wk[w].sent)
    /\ Finish(w, [Result("Register", "ok") EXCEPT !.user = One(wk[w].user).ID,
                                                  !.email = One(wk[w].user).Email,
                                                  !.code = wk[w].sent])
    /\ UNCHANGED <<users, verifs, nextVid, now, tokens, maxAttempts, confirmed, issued, cfg, nextJti, health>>

\* fault: a failed delivery undoes the two inserts
RegisterSendErrorRollsBack(w) ==
    /\ wk[w].pc = "reg_send"
    /\ SendEmailVerificationCodeError(One(wk[w].user).Email)
    /\ users' = {m \in users : m.id # One(wk[w].user).ID}
    /\ verifs' = {v \in verifs : v.userID # One(wk[w].user).ID}
    /\ Finish(w, [Result("Register", "failed to send verification email")
                    EXCEPT !.user = One(wk[w].user).ID, !.email = One(wk[w].user).Email])
    /\ UNCHANGED <<nextVid, now, tokens, maxAttempts, confirmed, issued, cfg, nextJti, health>>

\* the last step of Register when the email collaborator returns an error
RegisterSendError(w) ==
    /\ wk[w].pc = "reg_send"
    /\ SendEmailVerificationCodeError(One(wk[w].user).Email)
    /\ Finish(w, [Result("Register", "failed to send verification email")
                    EXCEPT !.user = One(wk[w].user).ID, !.email = One(wk[w].user).Email])
    /\ UNCHANGED <<users, verifs, nextVid, now, tokens, maxAttempts, confirmed, issued, cfg, nextJti, health>>

\* ------------------------------------------------------------------------
\* usecase/auth: VerifyEmail
\* ------------------------------------------------------------------------
VerifyEmailGetUser(w, email, code) ==
    /\ wk[w].pc = "idle"
    /\ LET found == GetByEmail(email)
       IN IF found = {}
          THEN Finish(w, Result("VerifyEmail", "ErrNotFound"))
          ELSE IF One(found).IsEmailVerified
          THEN Finish(w, Result("VerifyEmail", "ErrEmailAlreadyVerified"))
          ELSE Goto(w, [Idle EXCEPT !.pc = "ve_getActive", !.op = "VerifyEmail",
                                    !.email = email, !.code = code, !.user = found])
    /\ UNCHANGED <<users, verifs, nextVid, now, outbox, sends, tokens, maxAttempts, confirmed, issued, cfg, nextJti, log, health>>

VerifyEmailGetActive(w) ==
    /\ wk[w].pc = "ve_getActive"
    /\ LET user == One(wk[w].user)
           found == GetActiveByUserID(user.ID)
       IN IF found = {}
          THEN Finish(w, [Result("VerifyEmail", "ErrVerificationCodeNotFound")
                            EXCEPT !.user = user.ID, !.email = wk[w].email,
                                   !.code = wk[w].code])
          ELSE Goto(w, [wk[w] EXCEPT !.pc = "ve_check", !.v = found])
    /\ UNCHANGED <<users, verifs, nextVid, now, outbox, sends, tokens, maxAttempts, confirmed, issued, cfg, nextJti, log, health>>

\* fault: the limit is compared with the attempts loaded, not the new count
VerifyEmailCheckStaleAttempts(w) ==
    /\ wk[w].pc = "ve_check"
    /\ LET user == One(wk[w].user)
           v == One(wk[w].v)
           r == [NoRes EXCEPT !.op = "VerifyEmail", !.user = user.ID,
                              !.email = wk[w].email, !.vid = v.id, !.code = wk[w].code]
           verified == [user EXCEPT !.IsEmailVerified = TRUE]
       IN IF now > v.expiresAt
          THEN /\ verifs' = DeleteByUserID(user.ID)
               /\ Finish(w, [r EXCEPT !.out = "ErrVerificationCodeNotFound"])
               /\ UNCHANGED <<users, issued>>
          ELSE IF ~Compare(v.codeHash, wk[w].code)
          THEN /\ verifs' = IncrementAttempts(v.id)
               /\ issued' = Tried(v.id)
               /\ IF v.attempts >= v.maxAttempts
                  THEN Goto(w, [wk[w] EXCEPT !.pc = "ve_exceeded"])
                  ELSE Finish(w, [r EXCEPT !.out = "ErrVerificationCodeInvalid"])
               /\ UNCHANGED users
          ELSE /\ users' = UpdateRows(verified)
               /\ IF UpdateErr(verified) # "ok"
                  THEN Finish(w, [r EXCEPT !.out = UpdateErr(verified)])
                  ELSE Goto(w, [wk[w] EXCEPT !.pc = "ve_success", !.user = {verified}])
               /\ UNCHANGED <<verifs, issued>>
    /\ UNCHANGED <<nextVid, now, outbox, sends, tokens, maxAttempts, confirmed, cfg, nextJti, log, health>>

VerifyEmailCheck(w) ==
    /\ wk[w].pc = "ve_check"
    /\ LET user == One(wk[w].user)
           v == One(wk[w].v)
           r == [NoRes EXCEPT !.op = "VerifyEmail", !.user = user.ID,
                              !.email = wk[w].email, !.vid = v.id, !.code = wk[w].code]
           verified == [user EXCEPT !.IsEmailVerified = TRUE]
       IN IF now > v.expiresAt
          THEN /\ verifs' = DeleteByUserID(user.ID)
               /\ Finish(w, [r EXCEPT !.out = "ErrVerificationCodeNotFound"])
               /\ UNCHANGED <<users, issued>>
          ELSE IF ~Compare(v.codeHash, wk[w].code)
          THEN /\ verifs' = IncrementAttempts(v.id)
               /\ issued' = Tried(v.id)
               /\ IF v.attempts + 1 >= v.maxAttempts
                  THEN Goto(w, [wk[w] EXCEPT !.pc = "ve_exceeded"])
                  ELSE Finish(w, [r EXCEPT !.out = "ErrVerificationCodeInvalid"])
               /\ UNCHANGED users
          ELSE /\ users' = UpdateRows(verified)
               /\ IF UpdateErr(verified) # "ok"
                  THEN Finish(w, [r EXCEPT !.out = UpdateErr(verified)])
                  ELSE Goto(w, [wk[w] EXCEPT !.pc = "ve_success", !.user = {verified}])
               /\ UNCHANGED <<verifs, issued>>
    /\ UNCHANGED <<nextVid, now, outbox, sends, tokens, maxAttempts, confirmed, cfg, nextJti, log, health>>

VerifyEmailExceeded(w) ==
    /\ wk[w].pc = "ve_exceeded"
    /\ verifs' = DeleteByUserID(One(wk[w].user).ID)
    /\ Finish(w, [NoRes EXCEPT !.op = "VerifyEmail",
                               !.out = "ErrVerificationAttemptsExceeded",
                               !.user = One(wk[w].user).ID, !.email = wk[w].email,
                               !.vid = One(wk[w].v).id,
                               !.code = wk[w].code])
    /\ issued' = Exceeded(One(wk[w].v).id)
    /\ UNCHANGED <<users, nextVid, now, outbox, sends, tokens, maxAttempts, confirmed, cfg, nextJti, log, health>>

VerifyEmailSuccess(w) ==
    /\ wk[w].pc = "ve_success"
    /\ verifs' = DeleteByUserID(One(wk[w].user).ID)
    /\ tokens' = tokens \cup TokenPair(One(wk[w].user))
    /\ nextJti' = nextJti + 1
    /\ Finish(w, [NoRes EXCEPT !.op = "VerifyEmail", !.out = "ok",
                               !.user = One(wk[w].user).ID, !.email = wk[w].email,
                               !.vid = One(wk[w].v).id,
                               !.code = wk[w].code,
                               !.tokens = TokenPair(One(wk[w].user))])
    /\ confirmed' = confirmed \cup {One(wk[w].user).ID}
    /\ UNCHANGED <<users, nextVid, now, outbox, sends, maxAttempts, issued, cfg, log, health>>

\* the end of VerifyEmail when DeleteByUserID returns a store error: the
\* error is discarded and the tokens are issued with the records left stored
VerifyEmailSuccessDeleteError(w) ==
    /\ wk[w].pc = "ve_success"
    /\ nextJti <= MaxJti
    /\ tokens' = tokens \cup TokenPair(One(wk[w].user))
    /\ nextJti' = nextJti + 1
    /\ Finish(w, [NoRes EXCEPT !.op = "VerifyEmail", !.out = "ok",
                               !.user = One(wk[w].user).ID, !.email = wk[w].email,
                               !.vid = One(wk[w].v).id,
                               !.code = wk[w].code,
                               !.tokens = TokenPair(One(wk[w].user))])
    /\ confirmed' = confirmed \cup {One(wk[w].user).ID}
    /\ UNCHANGED <<users, verifs, nextVid, now, outbox, sends, maxAttempts, issued, cfg, log, health>>

\* ------------------------------------------------------------------------
\* usecase/auth: Login, Refresh
\* ------------------------------------------------------------------------
\* fault: Login does not look at IsEmailVerified
LoginResultSkipVerified(email, rawPassword) ==
    LET found == GetByEmail(email)
        user == One(found)
    IN IF found = {} THEN Result("Login", "ErrInvalidCredentials")
       ELSE IF ~Compare(user.PasswordHash, rawPassword)
       THEN [Result("Login", "ErrInvalidCredentials") EXCEPT !.user = user.ID]
       ELSE [Result("Login", "ok") EXCEPT !.user = user.ID, !.tokens = TokenPair(user)]

LoginResultVerifiedFirst(email, rawPassword) ==
    LET found == GetByEmail(email)
        user == One(found)
    IN IF found = {} THEN Result("Login", "ErrInvalidCredentials")
       ELSE IF ~user.IsEmailVerified
       THEN [Result("Login", "ErrEmailNotVerified") EXCEPT !.user = user.ID]
       ELSE IF ~Compare(user.PasswordHash, rawPassword)
       THEN [Result("Login", "ErrInvalidCredentials") EXCEPT !.user = user.ID]
       ELSE [Result("Login", "ok") EXCEPT !.user = user.ID, !.tokens = TokenPair(user)]

LoginResult(email, rawPassword) ==
    LET found == GetByEmail(email)
        user == One(found)
    IN IF found = {} THEN Result("Login", "ErrInvalidCredentials")
       ELSE IF ~Compare(user.PasswordHash, rawPassword)
       THEN [Result("Login", "ErrInvalidCredentials") EXCEPT !.user = user.ID]
       ELSE IF ~user.IsEmailVerified
       THEN [Result("Login", "ErrEmailNotVerified") EXCEPT !.user = user.ID]
       ELSE [Result("Login", "ok") EXCEPT !.user = user.ID, !.tokens = TokenPair(user)]

\* is_email_verified of the active row of a user, as stored
StoredVerified(id) == \E m \in ActiveRows : m.id = id /\ m.is_email_verified

Login(w, email, rawPassword) ==
    /\ wk[w].pc = "idle"
    /\ LET r == LoginResult(email, rawPassword)
       IN /\ tokens' = tokens \cup r.tokens
          /\ nextJti' = IF r.tokens = {} THEN nextJti ELSE nextJti + 1
          /\ Finish(w, [r EXCEPT !.stored = StoredVerified(r.user),
                                 !.email = email, !.code = rawPassword])
    /\ UNCHANGED <<users, verifs, nextVid, now, outbox, sends, maxAttempts, confirmed, issued, cfg, log, health>>

RefreshResultSkipVerified(refreshToken) ==
    LET claims == ParseRefreshToken(refreshToken)
        found == GetByID(One(claims.claims).UserID)
        user == One(found)
    IN IF claims.err # "nil" THEN Result("Refresh", "ErrInvalidRefreshToken")
       ELSE IF found = {} THEN Result("Refresh", "ErrInvalidRefreshToken")
       ELSE IF user.Deleted
       THEN [Result("Refresh", "ErrInvalidRefreshToken") EXCEPT !.user = user.ID]
       ELSE [Result("Refresh", "ok") EXCEPT !.user = user.ID, !.tokens = TokenPair(user)]

RefreshResult(refreshToken) ==
    LET claims == ParseRefreshToken(refreshToken)
        found == GetByID(One(claims.claims).UserID)
        user == One(found)
    IN IF claims.err # "nil" THEN Result("Refresh", "ErrInvalidRefreshToken")
       ELSE IF found = {} THEN Result("Refresh", "ErrInvalidRefreshToken")
       ELSE IF user.Deleted
       THEN [Result("Refresh", "ErrInvalidRefreshToken") EXCEPT !.user = user.ID]
       ELSE IF ~user.IsEmailVerified
       THEN [Result("Refresh", "ErrEmailNotVerified") EXCEPT !.user = user.ID]
       ELSE [Result("Refresh", "ok") EXCEPT !.user = user.ID, !.tokens = TokenPair(user)]

Refresh(w, refreshToken) ==
    /\ wk[w].pc = "idle"
    /\ LET r == RefreshResult(refreshToken)
       IN /\ tokens' = tokens \cup r.tokens
          /\ nextJti' = IF r.tokens = {} THEN nextJti ELSE nextJti + 1
          /\ Finish(w, [r EXCEPT !.stored = StoredVerified(r.user),
                                 !.token = {refreshToken},
                                 !.claims = ParseRefreshToken(refreshToken).claims])
    /\ UNCHANGED <<users, verifs, nextVid, now, outbox, sends, maxAttempts, confirmed, issued, cfg, log, health>>

\* ------------------------------------------------------------------------
\* usecase/user: DeleteAccount
\* ------------------------------------------------------------------------
SoftDeleteErr(id) == IF \E m \in ActiveRows : m.id = id THEN "ok" ELSE "ErrNotFound"

SoftDelete(id) ==
    {IF m.id = id /\ ~m.deleted THEN [m EXCEPT !.deleted = TRUE] ELSE m : m \in users}

DeleteAccount(w, userID) ==
    /\ wk[w].pc = "idle"
    /\ users' = SoftDelete(userID)
    /\ Finish(w, [Result("DeleteAccount", SoftDeleteErr(userID)) EXCEPT !.user = userID])
    /\ UNCHANGED <<verifs, nextVid, now, outbox, sends, tokens, maxAttempts, confirmed, issued, cfg, nextJti, log, health>>

\* ------------------------------------------------------------------------
\* usecase/user: UpdateProfile
\* ------------------------------------------------------------------------
\* ProfileUpdateInput.Username: a new username, or NULL for a field left out
ProfileInputs == Usernames \cup {NULL}

\* the user is read and the input applied to the copy in memory
UpdateProfileGetUser(w, userID, username) ==
    /\ wk[w].pc = "idle"
    /\ LET found == GetByID(userID)
       IN IF found = {}
          THEN Finish(w, [Result("UpdateProfile", "ErrNotFound") EXCEPT !.user = userID])
          ELSE Goto(w, [Idle EXCEPT !.pc = "up_update", !.op = "UpdateProfile",
                                    !.user = {IF username = NULL THEN One(found)
                                              ELSE [One(found) EXCEPT !.Username = username]}])
    /\ UNCHANGED <<users, verifs, nextVid, now, outbox, sends, tokens, maxAttempts, confirmed, issued, cfg, nextJti, log, health>>

\* users.Update with the copy; its error is returned as it is
UpdateProfileUpdate(w) ==
    /\ wk[w].pc = "up_update"
    /\ users' = UpdateRows(One(wk[w].user))
    /\ Finish(w, [Result("UpdateProfile", UpdateErr(One(wk[w].user)))
                    EXCEPT !.user = One(wk[w].user).ID, !.input = wk[w].user])
    /\ UNCHANGED <<verifs, nextVid, now, outbox, sends, tokens, maxAttempts, confirmed, issued, cfg, nextJti, log, health>>

\* ------------------------------------------------------------------------
\* usecase/auth: ResendVerificationCode
\* ------------------------------------------------------------------------
ResendGetUser(w, email) ==
    /\ wk[w].pc = "idle"
    /\ LET found == GetByEmail(email)
       IN IF found = {}
          THEN Finish(w, [Result("Resend", "ok") EXCEPT !.email = email])
          ELSE IF One(found).IsEmailVerified
          THEN Finish(w, [Result("Resend", "ErrEmailAlreadyVerified")
                            EXCEPT !.user = One(found).ID, !.email = email])
          ELSE Goto(w, [Idle EXCEPT !.pc = "rs_delete", !.op = "Resend",
                                    !.email = email, !.user = found])
    /\ UNCHANGED <<users, verifs, nextVid, now, outbox, sends, tokens, maxAttempts, confirmed, issued, cfg, nextJti, log, health>>

ResendDelete(w) ==
    /\ wk[w].pc = "rs_delete"
    /\ verifs' = DeleteByUserID(One(wk[w].user).ID)
    /\ Goto(w, [wk[w] EXCEPT !.pc = "rs_create"])
    /\ UNCHANGED <<users, nextVid, now, outbox, sends, tokens, maxAttempts, confirmed, issued, cfg, nextJti, log, health>>

ResendCreate(w, code) ==
    /\ wk[w].pc = "rs_create"
    /\ nextVid <= MaxVerifs
    /\ verifs' = verifs \cup {NewVerification(One(wk[w].user).ID, code, NULL)}
    /\ nextVid' = nextVid + 1
    /\ Goto(w, [wk[w] EXCEPT !.pc = "rs_send", !.sent = code,
                             !.v = {NewVerification(One(wk[w].user).ID, code, NULL)}])
    /\ issued' = Issue(NewVerification(One(wk[w].user).ID, code, NULL), "Resend")
    /\ UNCHANGED <<users, now, outbox, sends, tokens, maxAttempts, confirmed, cfg, nextJti, log, health>>

ResendSend(w) ==
    /\ wk[w].pc = "rs_send"
    /\ SendEmailVerificationCode(One(wk[w].user).Email, wk[w].sent)
    /\ Finish(w, [Result("Resend", "ok") EXCEPT !.user = One(wk[w].user).ID,
                                                !.email = wk[w].email,
                                                !.vid = One(wk[w].v).id,
                                                !.code = wk[w].sent])
    /\ UNCHANGED <<users, verifs, nextVid, now, tokens, maxAttempts, confirmed, issued, cfg, nextJti, health>>

\* ------------------------------------------------------------------------
\* usecase/user: RequestEmailChange
\* ------------------------------------------------------------------------
\* user ids carried by the access tokens that clients hold
Authenticated == {One(ParseAccessToken(t).claims).UserID : t \in {x \in tokens : ParseAccessToken(x).err = "nil"}}

RequestEmailChangeGetUser(w, userID, newEmail) ==
    /\ wk[w].pc = "idle"
    /\ LET found == GetByID(userID)
       IN IF found = {}
          THEN Finish(w, Result("RequestEmailChange", "ErrNotFound"))
          ELSE IF One(found).Email = newEmail
          THEN Finish(w, [Result("RequestEmailChange", "ErrEmailSameAsCurrent")
                            EXCEPT !.user = userID])
          ELSE Goto(w, [Idle EXCEPT !.pc = "rc_getByEmail", !.op = "RequestEmailChange",
                                    !.email = newEmail, !.user = found])
    /\ UNCHANGED <<users, verifs, nextVid, now, outbox, sends, tokens, maxAttempts, confirmed, issued, cfg, nextJti, log, health>>

RequestEmailChangeGetByEmail(w) ==
    /\ wk[w].pc = "rc_getByEmail"
    /\ LET existing == GetByEmail(wk[w].email)
       IN IF existing # {} /\ One(existing).ID # One(wk[w].user).ID
          THEN Finish(w, [Result("RequestEmailChange", "ErrEmailExists")
                            EXCEPT !.user = One(wk[w].user).ID])
          ELSE Goto(w, [wk[w] EXCEPT !.pc = "rc_delete"])
    /\ UNCHANGED <<users, verifs, nextVid, now, outbox, sends, tokens, maxAttempts, confirmed, issued, cfg, nextJti, log, health>>

RequestEmailChangeDelete(w) ==
    /\ wk[w].pc = "rc_delete"
    /\ verifs' = DeleteEmailChangeByUserID(One(wk[w].user).ID)
    /\ Goto(w, [wk[w] EXCEPT !.pc = "rc_create"])
    /\ UNCHANGED <<users, nextVid, now, outbox, sends, tokens, maxAttempts, confirmed, issued, cfg, nextJti, log, health>>

\* createAndSendEmailChangeCode, up to emailVerifs.Create
RequestEmailChangeCreate(w, code) ==
    /\ wk[w].pc = "rc_create"
    /\ nextVid <= MaxChangeVid
    /\ LET v == NewVerification(One(wk[w].user).ID, code, wk[w].email)
       IN /\ verifs' = verifs \cup {v}
          /\ nextVid' = nextVid + 1
          /\ issued' = Issue(v, "RequestEmailChange")
          /\ Goto(w, [wk[w] EXCEPT !.pc = "rc_send", !.sent = code, !.v = {v}])
    /\ UNCHANGED <<users, now, outbox, sends, tokens, maxAttempts, confirmed, cfg, nextJti, log, health>>

RequestEmailChangeSend(w) ==
    /\ wk[w].pc = "rc_send"
    /\ SendEmailVerificationCode(wk[w].email, wk[w].sent)
    /\ Finish(w, [Result("RequestEmailChange", "ok")
                    EXCEPT !.user = One(wk[w].user).ID, !.email = wk[w].email,
                           !.vid = One(wk[w].v).id, !.code = wk[w].sent])
    /\ UNCHANGED <<users, verifs, nextVid, now, tokens, maxAttempts, confirmed, issued, cfg, nextJti, health>>

\* createAndSendEmailChangeCode when the email collaborator returns an error
RequestEmailChangeSendError(w) ==
    /\ wk[w].pc = "rc_send"
    /\ SendEmailVerificationCodeError(wk[w].email)
    /\ Finish(w, [Result("RequestEmailChange", "failed to send verification email")
                    EXCEPT !.user = One(wk[w].user).ID, !.email = wk[w].email,
                           !.vid = One(wk[w].v).id])
    /\ UNCHANGED <<users, verifs, nextVid, now, tokens, maxAttempts, confirmed, issued, cfg, nextJti, health>>

\* ------------------------------------------------------------------------
\* usecase/user: VerifyEmailChange and verification.VerifyCode
\* ------------------------------------------------------------------------
VerifyEmailChangeGetUser(w, userID, code) ==
    /\ wk[w].pc = "idle"
    /\ LET found == GetByID(userID)
       IN IF found = {}
          THEN Finish(w, Result("VerifyEmailChange", "ErrNotFound"))
          ELSE Goto(w, [Idle EXCEPT !.pc = "vc_getActive", !.op = "VerifyEmailChange",
                                    !.code = code, !.user = found, !.before = found])
    /\ UNCHANGED <<users, verifs, nextVid, now, outbox, sends, tokens, maxAttempts, confirmed, issued, cfg, nextJti, log, health>>

VerifyEmailChangeGetActive(w) ==
    /\ wk[w].pc = "vc_getActive"
    /\ LET found == GetActiveEmailChangeByUserID(One(wk[w].user).ID)
       IN IF found = {}
          THEN Finish(w, [Result("VerifyEmailChange", "ErrVerificationCodeNotFound")
                            EXCEPT !.user = One(wk[w].user).ID, !.code = wk[w].code])
          ELSE Goto(w, [wk[w] EXCEPT !.pc = "vc_verifyCode", !.v = found])
    /\ UNCHANGED <<users, verifs, nextVid, now, outbox, sends, tokens, maxAttempts, confirmed, issued, cfg, nextJti, log, health>>

\* fault: the code is compared before the TTL is checked
VerifyCodeCompareFirst(w) ==
    /\ wk[w].pc = "vc_verifyCode"
    /\ LET v == One(wk[w].v)
       IN IF ~Compare(v.codeHash, wk[w].code)
          THEN /\ issued' = Tried(v.id)
               /\ IF VerifGetByID(v.id) = {}
                  THEN /\ Finish(w, [Result("VerifyEmailChange", "failed to increment attempts")
                                       EXCEPT !.user = v.userID, !.vid = v.id,
                                              !.code = wk[w].code])
                       /\ UNCHANGED verifs
                  ELSE /\ verifs' = IncrementAttempts(v.id)
                       /\ Goto(w, [wk[w] EXCEPT !.pc = "vc_getByID"])
          ELSE IF now > v.expiresAt
          THEN /\ Goto(w, [wk[w] EXCEPT !.pc = "vc_expired", !.sent = "VerificationExpired"])
               /\ UNCHANGED <<verifs, issued>>
          ELSE /\ Goto(w, [wk[w] EXCEPT !.pc = "vc_checkEmail", !.sent = "VerificationSuccess"])
               /\ UNCHANGED <<verifs, issued>>
    /\ UNCHANGED <<users, nextVid, now, outbox, sends, tokens, maxAttempts, confirmed, cfg, nextJti, log, health>>

\* the first half of VerifyCode: the TTL check, the comparison and, on a
\* mismatch, IncrementAttempts; "sent" keeps the VerificationResult so far
VerifyCode(w) ==
    /\ wk[w].pc = "vc_verifyCode"
    /\ LET v == One(wk[w].v)
       IN IF now > v.expiresAt
          THEN /\ Goto(w, [wk[w] EXCEPT !.pc = "vc_expired", !.sent = "VerificationExpired"])
               /\ UNCHANGED <<verifs, issued>>
          ELSE IF ~Compare(v.codeHash, wk[w].code)
          THEN /\ issued' = Tried(v.id)
               /\ IF VerifGetByID(v.id) = {}
                  THEN /\ Finish(w, [Result("VerifyEmailChange", "failed to increment attempts")
                                       EXCEPT !.user = v.userID, !.vid = v.id,
                                              !.code = wk[w].code])
                       /\ UNCHANGED verifs
                  ELSE /\ verifs' = IncrementAttempts(v.id)
                       /\ Goto(w, [wk[w] EXCEPT !.pc = "vc_getByID"])
          ELSE /\ Goto(w, [wk[w] EXCEPT !.pc = "vc_checkEmail", !.sent = "VerificationSuccess"])
               /\ UNCHANGED <<verifs, issued>>
    /\ UNCHANGED <<users, nextVid, now, outbox, sends, tokens, maxAttempts, confirmed, cfg, nextJti, log, health>>

\* fault: the limit is compared with the attempts of the record passed in
VerifyCodeGetByIDSnapshot(w) ==
    /\ wk[w].pc = "vc_getByID"
    /\ LET v == One(wk[w].v)
           updatedVerification == VerifGetByID(v.id)
       IN IF updatedVerification = {}
          THEN Finish(w, [Result("VerifyEmailChange", "failed to get updated verification")
                            EXCEPT !.user = v.userID, !.vid = v.id, !.code = wk[w].code])
          ELSE IF v.attempts + 1 >= v.maxAttempts
          THEN Goto(w, [wk[w] EXCEPT !.pc = "vc_exceeded", !.v = updatedVerification,
                                      !.sent = "VerificationAttemptsExceeded"])
          ELSE Finish(w, [Result("VerifyEmailChange", "ErrVerificationCodeInvalid")
                            EXCEPT !.user = v.userID, !.vid = v.id, !.code = wk[w].code])
    /\ UNCHANGED <<users, verifs, nextVid, now, outbox, sends, tokens, maxAttempts, confirmed, issued, cfg, nextJti, log, health>>

\* the second half of VerifyCode: the attempts are read back by id
VerifyCodeGetByID(w) ==
    /\ wk[w].pc = "vc_getByID"
    /\ LET v == One(wk[w].v)
           updatedVerification == VerifGetByID(v.id)
       IN IF updatedVerification = {}
          THEN Finish(w, [Result("VerifyEmailChange", "failed to get updated verification")
                            EXCEPT !.user = v.userID, !.vid = v.id, !.code = wk[w].code])
          ELSE IF One(updatedVerification).attempts >= One(updatedVerification).maxAttempts
          THEN Goto(w, [wk[w] EXCEPT !.pc = "vc_exceeded", !.v = updatedVerification,
                                      !.sent = "VerificationAttemptsExceeded"])
          ELSE Finish(w, [Result("VerifyEmailChange", "ErrVerificationCodeInvalid")
                            EXCEPT !.user = v.userID, !.vid = v.id, !.code = wk[w].code])
    /\ UNCHANGED <<users, verifs, nextVid, now, outbox, sends, tokens, maxAttempts, confirmed, issued, cfg, nextJti, log, health>>

VerifyEmailChangeExpired(w) ==
    /\ wk[w].pc = "vc_expired"
    /\ verifs' = DeleteEmailChangeByUserID(One(wk[w].user).ID)
    /\ Finish(w, [Result("VerifyEmailChange", "ErrVerificationCodeNotFound")
                    EXCEPT !.user = One(wk[w].user).ID, !.vid = One(wk[w].v).id,
                           !.code = wk[w].code])
    /\ UNCHANGED <<users, nextVid, now, outbox, sends, tokens, maxAttempts, confirmed, issued, cfg, nextJti, log, health>>

\* fault: the record survives the report of exceeded attempts
VerifyEmailChangeExceededKeepsRecord(w) ==
    /\ wk[w].pc = "vc_exceeded"
    /\ Finish(w, [Result("VerifyEmailChange", "ErrVerificationAttemptsExceeded")
                    EXCEPT !.user = One(wk[w].user).ID, !.vid = One(wk[w].v).id,
                           !.code = wk[w].code])
    /\ issued' = Exceeded(One(wk[w].v).id)
    /\ UNCHANGED <<users, verifs, nextVid, now, outbox, sends, tokens, maxAttempts, confirmed, cfg, nextJti, log, health>>

VerifyEmailChangeExceeded(w) ==
    /\ wk[w].pc = "vc_exceeded"
    /\ verifs' = DeleteEmailChangeByUserID(One(wk[w].user).ID)
    /\ Finish(w, [Result("VerifyEmailChange", "ErrVerificationAttemptsExceeded")
                    EXCEPT !.user = One(wk[w].user).ID, !.vid = One(wk[w].v).id,
                           !.code = wk[w].code])
    /\ issued' = Exceeded(One(wk[w].v).id)
    /\ UNCHANGED <<users, nextVid, now, outbox, sends, tokens, maxAttempts, confirmed, cfg, nextJti, log, health>>

VerifyEmailChangeCheckEmail(w) ==
    /\ wk[w].pc = "vc_checkEmail"
    /\ LET existing == GetByEmail(One(wk[w].v).newEmail)
       IN IF existing # {} /\ One(existing).ID # One(wk[w].user).ID
          THEN Goto(w, [wk[w] EXCEPT !.pc = "vc_conflict"])
          ELSE Goto(w, [wk[w] EXCEPT !.pc = "vc_update"])
    /\ UNCHANGED <<users, verifs, nextVid, now, outbox, sends, tokens, maxAttempts, confirmed, issued, cfg, nextJti, log, health>>

\* fault: the pending record is kept when the target email has been taken
VerifyEmailChangeConflictKeepsRecord(w) ==
    /\ wk[w].pc = "vc_conflict"
    /\ Finish(w, [Result("VerifyEmailChange", "ErrEmailExists")
                    EXCEPT !.user = One(wk[w].user).ID, !.vid = One(wk[w].v).id,
                           !.code = wk[w].code])
    /\ UNCHANGED <<users, verifs, nextVid, now, outbox, sends, tokens, maxAttempts, confirmed, issued, cfg, nextJti, log, health>>

VerifyEmailChangeConflict(w) ==
    /\ wk[w].pc = "vc_conflict"
    /\ verifs' = DeleteEmailChangeByUserID(One(wk[w].user).ID)
    /\ Finish(w, [Result("VerifyEmailChange", "ErrEmailExists")
                    EXCEPT !.user = One(wk[w].user).ID, !.vid = One(wk[w].v).id,
                           !.code = wk[w].code])
    /\ UNCHANGED <<users, nextVid, now, outbox, sends, tokens, maxAttempts, confirmed, issued, cfg, nextJti, log, health>>

VerifyEmailChangeUpdate(w) ==
    /\ wk[w].pc = "vc_update"
    /\ LET user == [One(wk[w].user) EXCEPT !.Email = One(wk[w].v).newEmail,
                                           !.IsEmailVerified = TRUE]
       IN /\ users' = UpdateRows(user)
          /\ IF UpdateErr(user) # "ok"
             THEN Finish(w, [Result("VerifyEmailChange",
                                    "failed to update user email: " \o UpdateErr(user))
                               EXCEPT !.user = user.ID, !.vid = One(wk[w].v).id,
                                      !.code = wk[w].code])
             ELSE Goto(w, [wk[w] EXCEPT !.pc = "vc_delete", !.user = {user}])
    /\ UNCHANGED <<verifs, nextVid, now, outbox, sends, tokens, maxAttempts, confirmed, issued, cfg, nextJti, log, health>>

VerifyEmailChangeDelete(w) ==
    /\ wk[w].pc = "vc_delete"
    /\ verifs' = DeleteEmailChangeByUserID(One(wk[w].user).ID)
    /\ confirmed' = confirmed \cup {One(wk[w].user).ID}
    /\ Finish(w, [Result("VerifyEmailChange", "ok")
                    EXCEPT !.user = One(wk[w].user).ID, !.vid = One(wk[w].v).id,
                           !.code = wk[w].code, !.input = wk[w].user,
                           !.email = One(wk[w].v).newEmail])
    /\ UNCHANGED <<users, nextVid, now, outbox, sends, tokens, maxAttempts, issued, cfg, nextJti, log, health>>

\* the final DeleteEmailChangeByUserID returns a store error: the rows stay
\* and the error is returned after users.Update has been applied
VerifyEmailChangeDeleteError(w) ==
    /\ wk[w].pc = "vc_delete"
    /\ Finish(w, [Result("VerifyEmailChange", "failed to delete verification codes")
                    EXCEPT !.user = One(wk[w].user).ID, !.vid = One(wk[w].v).id,
                           !.code = wk[w].code, !.email = One(wk[w].v).newEmail])
    /\ UNCHANGED <<users, verifs, nextVid, now, outbox, sends, tokens, maxAttempts, confirmed, issued, cfg, nextJti, log, health>>

\* ------------------------------------------------------------------------
\* gin: the context of one request, handler/response, handler/middleware,
\* handler/user
\* ------------------------------------------------------------------------
\* the Authorization header as strings.SplitN(authHeader, " ", 2) sees it:
\* parts = 0 for a missing header, the token part holds at most one token
\* and is empty for a blank one
Schemes == {"Bearer", "bearer", "Basic"}

Headers ==
    {[parts |-> 0, scheme |-> "", token |-> {}]}
        \cup {[parts |-> 1, scheme |-> s, token |-> {}] : s \in Schemes}
        \cup {[parts |-> 2, scheme |-> s, token |-> {}] : s \in Schemes}
        \cup {[parts |-> 2, scheme |-> s, token |-> {t}] : s \in Schemes, t \in tokens}

Bearer(t) == [parts |-> 2, scheme |-> "Bearer", token |-> {t}]

\* strings.EqualFold(parts[0], "Bearer")
EqualFold(s) == s \in {"Bearer", "bearer"}

\* a context before its first handler: no keys, nothing written
NewContext ==
    [userID |-> "", userEmail |-> "", userRole |-> "",
     writes |-> <<>>, aborted |-> FALSE, ran |-> {}]

\* c.JSON: one more body; the status of the first write is the one sent
JSON(c, status, code, body) ==
    [c EXCEPT !.writes = Append(@, [status |-> status, code |-> code, body |-> body])]

\* response.Error
Error(c, status, code) == JSON(c, status, code, {})

\* c.Abort
Abort(c) == [c EXCEPT !.aborted = TRUE]

\* middleware.Auth
Auth(c, h) ==
    IF h.parts = 0 THEN Error(c, 401, "missing_authorization_header")
    ELSE IF h.parts # 2 \/ ~EqualFold(h.scheme)
    THEN Error(c, 401, "invalid_authorization_header")
    ELSE IF h.token = {} THEN Error(c, 401, "invalid_authorization_header")
    ELSE LET claims == ParseAccessToken(One(h.token))
         IN IF claims.err # "nil" THEN Error(c, 401, "invalid_token")
            ELSE [c EXCEPT !.userID = One(claims.claims).UserID,
                           !.userEmail = One(claims.claims).Email,
                           !.userRole = One(claims.claims).Role]

\* a role check that answers 403 and leaves the context running
RequireRoleNoAbort(c, allowedRoles) ==
    LET allowed == allowedRoles \ {""}
    IN IF c.userRole = "" THEN Error(c, 403, "forbidden")
       ELSE IF allowed = {} THEN c
       ELSE IF c.userRole \notin allowed THEN Error(c, 403, "forbidden")
       ELSE c

\* middleware.RequireRole; the empty role is dropped from the allowed ones
RequireRole(c, allowedRoles) ==
    LET allowed == allowedRoles \ {""}
    IN IF c.userRole = "" THEN Abort(Error(c, 403, "forbidden"))
       ELSE IF allowed = {} THEN c
       ELSE IF c.userRole \notin allowed THEN Abort(Error(c, 403, "forbidden"))
       ELSE c

\* the handler named is entered
Enter(c, handler) == [c EXCEPT !.ran = @ \cup {handler}]

toProfileResponse(u) ==
    [ID |-> u.ID, Email |-> u.Email, Username |-> u.Username, Role |-> u.Role]

toPublicProfileResponse(u) ==
    [ID |-> u.ID, Username |-> u.Username, Role |-> u.Role]

\* Handler.GetMe
HandlerGetMe(c0) ==
    LET c == Enter(c0, "GetMe")
    IN IF c.userID = "" THEN Error(c, 401, "unauthorized")
       ELSE IF GetByID(c.userID) = {} THEN Error(c, 404, "user_not_found")
       ELSE JSON(c, 200, "", {toProfileResponse(One(GetByID(c.userID)))})

\* the :id parameter: a user id, or a string that uuid.Parse refuses
IdParams == UserIds \cup {"invalid-uuid"}

\* Handler.GetByID
HandlerGetByID(c0, idStr) ==
    LET c == Enter(c0, "GetByID")
    IN IF idStr \notin UserIds THEN Error(c, 400, "invalid_request")
       ELSE IF GetByID(idStr) = {} THEN Error(c, 404, "user_not_found")
       ELSE JSON(c, 200, "", {toPublicProfileResponse(One(GetByID(idStr)))})

\* Handler.ListUsers
HandlerListUsers(c0) ==
    LET c == Enter(c0, "ListUsers")
    IN JSON(c, 200, "", {toProfileResponse(u) : u \in List})

\* Handler.DeleteMe, the response
HandlerDeleteMe(c0) ==
    LET c == Enter(c0, "DeleteMe")
    IN IF c.userID = "" THEN Error(c, 401, "unauthorized")
       ELSE IF SoftDeleteErr(c.userID) = "ErrNotFound" THEN Error(c, 404, "user_not_found")
       ELSE JSON(c, 204, "", {})

\* the routes of setupUserRoutes: the engine calls the handlers of a route
\* one after the other until one of them aborts the context
RouteGetMe(h) ==
    LET c == Auth(NewContext, h)
    IN IF c.aborted THEN c ELSE HandlerGetMe(c)

RouteGetByID(h, idStr) ==
    LET c == Auth(NewContext, h)
    IN IF c.aborted THEN c ELSE HandlerGetByID(c, idStr)

RouteDeleteMe(h) ==
    LET c == Auth(NewContext, h)
    IN IF c.aborted THEN c ELSE HandlerDeleteMe(c)

RouteListUsers(h) ==
    LET c1 == Auth(NewContext, h)
        c2 == IF c1.aborted THEN c1 ELSE RequireRole(c1, {"admin"})
    IN IF c2.aborted THEN c2 ELSE HandlerListUsers(c2)

\* what the client receives: the status of the first write
Status(c) == c.writes[1].status

Response(route, h, c) ==
    [Result(route, c.writes[1].code) EXCEPT !.vid = Status(c), !.writes = c.writes,
                                            !.ran = c.ran, !.header = {h},
                                            !.user = c.userID, !.role = c.userRole]

ServeGetMe(w, h) ==
    /\ wk[w].pc = "idle"
    /\ Finish(w, Response("GET /users/me", h, RouteGetMe(h)))
    /\ UNCHANGED <<users, verifs, nextVid, now, outbox, sends, tokens, maxAttempts, confirmed, issued, cfg, nextJti, log, health>>

ServeGetByID(w, h, idStr) ==
    /\ wk[w].pc = "idle"
    /\ Finish(w, [Response("GET /users/:id", h, RouteGetByID(h, idStr)) EXCEPT !.code = idStr])
    /\ UNCHANGED <<users, verifs, nextVid, now, outbox, sends, tokens, maxAttempts, confirmed, issued, cfg, nextJti, log, health>>

ServeListUsers(w, h) ==
    /\ wk[w].pc = "idle"
    /\ Finish(w, Response("GET /admin/users", h, RouteListUsers(h)))
    /\ UNCHANGED <<users, verifs, nextVid, now, outbox, sends, tokens, maxAttempts, confirmed, issued, cfg, nextJti, log, health>>

\* DELETE /users/me: the account is soft-deleted when the handler gets a user id
ServeDeleteMe(w, h) ==
    /\ wk[w].pc = "idle"
    /\ LET c == RouteDeleteMe(h)
       IN /\ users' = IF "DeleteMe" \in c.ran /\ c.userID # "" THEN SoftDelete(c.userID) ELSE users
          /\ Finish(w, Response("DELETE /users/me", h, c))
    /\ UNCHANGED <<verifs, nextVid, now, outbox, sends, tokens, maxAttempts, confirmed, issued, cfg, nextJti, log, health>>

\* ------------------------------------------------------------------------
\* pkg/verification: GenerateNumericCode
\* ------------------------------------------------------------------------
MaxCodeLen == 2

digits == <<"0", "1", "2", "3", "4", "5", "6", "7", "8", "9">>

\* rand.Int(rand.Reader, max): a number below len(digits), or a failure of
\* the entropy source
RandFailure == 0 - 1
RandOutcomes == 0..(Len(digits) - 1) \cup {RandFailure}

\* what the calls of rand.Int of one run would return, in order
RandReads(length) == IF length <= 0 THEN {<<>>} ELSE [1..length -> RandOutcomes]

\* the loop from index i on; code is the byte slice filled so far
RECURSIVE GenerateLoop(_, _, _, _)
GenerateLoop(i, length, rnd, code) ==
    IF i > length THEN [code |-> code, err |-> "nil"]
    ELSE IF rnd[i] = RandFailure
    THEN [code |-> <<>>, err |-> "failed to generate random digit"]
    ELSE GenerateLoop(i + 1, length, rnd, [code EXCEPT ![i] = digits[rnd[i] + 1]])

\* fault: only negative lengths are refused
GenerateNumericCodeZeroAllowed(length, rnd) ==
    IF length < 0 THEN [code |-> <<>>, err |-> "length must be positive"]
    ELSE GenerateLoop(1, length, rnd, [i \in 1..length |-> "NUL"])

GenerateNumericCode(length, rnd) ==
    IF length <= 0 THEN [code |-> <<>>, err |-> "length must be positive"]
    ELSE GenerateLoop(1, length, rnd, [i \in 1..length |-> "NUL"])

GenerateCall(w, length, rnd) ==
    /\ wk[w].pc = "idle"
    /\ Finish(w, [Result("GenerateNumericCode", GenerateNumericCode(length, rnd).err)
                    EXCEPT !.value = GenerateNumericCode(length, rnd).code,
                           !.input = {[length |-> length, rnd |-> rnd]}])
    /\ UNCHANGED <<users, verifs, nextVid, now, outbox, sends, tokens, maxAttempts, confirmed, issued, cfg, nextJti, log, health>>

\* ------------------------------------------------------------------------
\* specifications
\* ------------------------------------------------------------------------
\* requests served one after another by a single worker
NextSeq ==
    \/ Tick
    \/ Return("w1")
    \/ \E email \in Emails, username \in Usernames : RegisterCreateUser("w1", email, username)
    \/ \E code \in Codes : RegisterCreateVerification("w1", code)
    \/ RegisterSend("w1")
    \/ \E email \in Emails, code \in Codes : VerifyEmailGetUser("w1", email, code)
    \/ VerifyEmailGetActive("w1")
    \/ VerifyEmailCheck("w1")
    \/ VerifyEmailExceeded("w1")
    \/ VerifyEmailSuccess("w1")
    \/ \E email \in Emails, pw \in LoginPasswords : Login("w1", email, pw)
    \/ \E t \in tokens : Refresh("w1", t)
    \/ \E email \in Emails : ResendGetUser("w1", email)
    \/ ResendDelete("w1")
    \/ \E code \in Codes : ResendCreate("w1", code)
    \/ ResendSend("w1")

SpecSeq == Init /\ [][NextSeq]_vars

\* the code generated and mailed in the concurrent specifications
SentCode == "111111"

\* one account is registered by one client while three workers serve
\* concurrent VerifyEmail requests for it
VerifyEmailStep(w) ==
    \/ Return(w)
    \/ \E code \in Codes : VerifyEmailGetUser(w, "a@x.com", code)
    \/ VerifyEmailGetActive(w)
    \/ VerifyEmailCheck(w)
    \/ VerifyEmailExceeded(w)
    \/ VerifyEmailSuccess(w)

NextRace ==
    \/ Tick
    \/ RegisterCreateUser("w1", "a@x.com", "alice")
    \/ RegisterCreateVerification("w1", SentCode)
    \/ RegisterSend("w1")
    \/ \E w \in AllWorkers : VerifyEmailStep(w)

SpecRace == Init /\ [][NextRace]_vars

\* one account is registered and confirmed and requests an email change
\* through one client while two workers serve concurrent VerifyEmailChange
\* requests for it
ChangeWorkers == {"w1", "w2"}

VerifyEmailChangeStep(w) ==
    \/ Return(w)
    \/ \E userID \in Authenticated, code \in Codes : VerifyEmailChangeGetUser(w, userID, code)
    \/ VerifyEmailChangeGetActive(w)
    \/ VerifyCode(w)
    \/ VerifyCodeGetByID(w)
    \/ VerifyEmailChangeExpired(w)
    \/ VerifyEmailChangeExceeded(w)
    \/ VerifyEmailChangeCheckEmail(w)
    \/ VerifyEmailChangeUpdate(w)
    \/ VerifyEmailChangeDelete(w)

NextChange ==
    \/ Tick
    \/ RegisterCreateUser("w1", "a@x.com", "alice")
    \/ RegisterCreateVerification("w1", SentCode)
    \/ RegisterSend("w1")
    \/ VerifyEmailGetUser("w1", "a@x.com", SentCode)
    \/ VerifyEmailGetActive("w1")
    \/ VerifyEmailCheck("w1")
    \/ VerifyEmailSuccess("w1")
    \/ \E userID \in Authenticated : RequestEmailChangeGetUser("w1", userID, "b@x.com")
    \/ RequestEmailChangeGetByEmail("w1")
    \/ RequestEmailChangeDelete("w1")
    \/ RequestEmailChangeCreate("w1", SentCode)
    \/ RequestEmailChangeSend("w1")
    \/ \E w \in ChangeWorkers : VerifyEmailChangeStep(w)

SpecChange == Init /\ [][NextChange]_vars

\* one verified user whose client sends concurrent change-email requests
RequestEmailChangeStep(w) ==
    \/ Return(w)
    \/ \E userID \in Authenticated, newEmail \in Emails :
          RequestEmailChangeGetUser(w, userID, newEmail)
    \/ RequestEmailChangeGetByEmail(w)
    \/ RequestEmailChangeDelete(w)
    \/ RequestEmailChangeCreate(w, SentCode)
    \/ RequestEmailChangeSend(w)

NextRequest ==
    \/ Tick
    \/ RegisterCreateUser("w1", "a@x.com", "alice")
    \/ RegisterCreateVerification("w1", SentCode)
    \/ RegisterSend("w1")
    \/ VerifyEmailGetUser("w1", "a@x.com", SentCode)
    \/ VerifyEmailGetActive("w1")
    \/ VerifyEmailCheck("w1")
    \/ VerifyEmailSuccess("w1")
    \/ \E w \in ChangeWorkers : RequestEmailChangeStep(w)

SpecRequest == Init /\ [][NextRequest]_vars

\* two accounts: the client of the first changes its email to b@x.com while
\* the client of the second registers with that email
NextConflict ==
    \/ Tick
    \/ \E w \in ChangeWorkers : Return(w)
    \/ RegisterCreateUser("w1", "a@x.com", "alice")
    \/ RegisterCreateUser("w2", "b@x.com", "bob")
    \/ \E w \in ChangeWorkers : RegisterCreateVerification(w, SentCode)
    \/ \E w \in ChangeWorkers : RegisterSend(w)
    \/ VerifyEmailGetUser("w1", "a@x.com", SentCode)
    \/ VerifyEmailGetActive("w1")
    \/ VerifyEmailCheck("w1")
    \/ VerifyEmailSuccess("w1")
    \/ \E userID \in Authenticated : RequestEmailChangeGetUser("w1", userID, "b@x.com")
    \/ RequestEmailChangeGetByEmail("w1")
    \/ RequestEmailChangeDelete("w1")
    \/ RequestEmailChangeCreate("w1", SentCode)
    \/ RequestEmailChangeSend("w1")
    \/ \E userID \in Authenticated : VerifyEmailChangeGetUser("w1", userID, SentCode)
    \/ VerifyEmailChangeGetActive("w1")
    \/ VerifyCode("w1")
    \/ VerifyEmailChangeExpired("w1")
    \/ VerifyEmailChangeCheckEmail("w1")
    \/ VerifyEmailChangeConflict("w1")
    \/ VerifyEmailChangeUpdate("w1")
    \/ VerifyEmailChangeDelete("w1")

SpecConflict == Init /\ [][NextConflict]_vars

\* one verified user whose client requests and confirms changes of email,
\* one request at a time, with right and wrong codes
NextChangeSeq ==
    \/ Tick
    \/ RegisterCreateUser("w1", "a@x.com", "alice")
    \/ RegisterCreateVerification("w1", SentCode)
    \/ RegisterSend("w1")
    \/ VerifyEmailGetUser("w1", "a@x.com", SentCode)
    \/ VerifyEmailGetActive("w1")
    \/ VerifyEmailCheck("w1")
    \/ VerifyEmailSuccess("w1")
    \/ \E userID \in Authenticated : RequestEmailChangeGetUser("w1", userID, "b@x.com")
    \/ RequestEmailChangeGetByEmail("w1")
    \/ RequestEmailChangeDelete("w1")
    \/ RequestEmailChangeCreate("w1", SentCode)
    \/ RequestEmailChangeSend("w1")
    \/ VerifyEmailChangeStep("w1")

SpecChangeSeq == Init /\ [][NextChangeSeq]_vars

\* ------------------------------------------------------------------------
\* handler/health: Handler.HealthDB, one action per step of the handler, of
\* the goroutine that runs Ping, and of the context
\* ------------------------------------------------------------------------
PingResults == {"nil", "ping error"}

HealthResponse(h, status, message, from) ==
    [h EXCEPT !.pc = "done", !.status = status, !.message = message, !.from = from,
              !.ctx = IF @ = "live" THEN "context canceled" ELSE @]

\* up to the select: the nil check, context.WithTimeout, make(chan error, 1)
\* and the go statement
HealthDBEnter(r) ==
    /\ health[r].pc = "idle"
    /\ health' = [health EXCEPT ![r] =
           IF @.db = "nil"
           THEN [@ EXCEPT !.pc = "done", !.status = 503,
                          !.message = <<"database not initialised">>, !.from = "nil check"]
           ELSE [@ EXCEPT !.pc = "select", !.go = "ping"]]
    /\ UNCHANGED <<users, verifs, nextVid, now, outbox, sends, tokens, maxAttempts, wk, res, confirmed, issued, cfg, nextJti, log>>

\* h.db.Ping() returns in the goroutine
PingReturns(r, err) ==
    /\ health[r].go = "ping"
    /\ health' = [health EXCEPT ![r].go = "send", ![r].ping = err]
    /\ UNCHANGED <<users, verifs, nextVid, now, outbox, sends, tokens, maxAttempts, wk, res, confirmed, issued, cfg, nextJti, log>>

\* fault: errCh := make(chan error), a send needs the handler in its select
ChanReadyUnbuffered(h) == h.pc = "select" /\ h.errCh = <<>>

\* a send on errCh proceeds while the buffer has room
ChanReady(h) == Len(h.errCh) < ErrChCap

\* errCh <- h.db.Ping(): the send, after which the goroutine ends
GoSend(r) ==
    /\ health[r].go = "send"
    /\ ChanReady(health[r])
    /\ health' = [health EXCEPT ![r].go = "exit", ![r].errCh = Append(@, health[r].ping)]
    /\ UNCHANGED <<users, verifs, nextVid, now, outbox, sends, tokens, maxAttempts, wk, res, confirmed, issued, cfg, nextJti, log>>

\* the 5-second timer of context.WithTimeout fires
Deadline(r) ==
    /\ health[r].pc = "select"
    /\ health[r].ctx = "live"
    /\ health' = [health EXCEPT ![r].ctx = "context deadline exceeded"]
    /\ UNCHANGED <<users, verifs, nextVid, now, outbox, sends, tokens, maxAttempts, wk, res, confirmed, issued, cfg, nextJti, log>>

\* the request's own context is cancelled
Cancel(r) ==
    /\ health[r].pc = "select"
    /\ health[r].ctx = "live"
    /\ health' = [health EXCEPT ![r].ctx = "context canceled"]
    /\ UNCHANGED <<users, verifs, nextVid, now, outbox, sends, tokens, maxAttempts, wk, res, confirmed, issued, cfg, nextJti, log>>

\* the response for the error the select produced
HealthDBAnswer(h, err, from) ==
    IF err # "nil"
    THEN HealthResponse(h, 503, IF h.appEnv # "production"
                                THEN <<"database unavailable", err>>
                                ELSE <<"database unavailable">>, from)
    ELSE HealthResponse(h, 200, <<"database available">>, from)

\* the select and the rest of the handler; when both cases are ready the
\* runtime picks either; the deferred cancel() runs at the return
HealthDBSelect(r) ==
    /\ health[r].pc = "select"
    /\ \/ /\ health[r].errCh # <<>>
          /\ health' = [health EXCEPT ![r] =
                 HealthDBAnswer([@ EXCEPT !.errCh = Tail(@)], Head(health[r].errCh), "errCh")]
       \/ /\ health[r].ctx # "live"
          /\ health' = [health EXCEPT ![r] = HealthDBAnswer(@, health[r].ctx, "ctx")]
    /\ UNCHANGED <<users, verifs, nextVid, now, outbox, sends, tokens, maxAttempts, wk, res, confirmed, issued, cfg, nextJti, log>>

\* two health checks in flight against a server built with or without a
\* database, in production or not; Ping may return either result or hang
InitHealth ==
    /\ users = {}
    /\ verifs = {}
    /\ nextVid = 1
    /\ now = 0
    /\ outbox = [e \in Emails |-> ""]
    /\ sends = 0
    /\ tokens = {}
    /\ maxAttempts = 1
    /\ wk = [w \in AllWorkers |-> Idle]
    /\ res = [w \in AllWorkers |-> NoRes]
    /\ confirmed = {}
    /\ issued = <<>>
    /\ cfg = JWTConfig
    /\ nextJti = 1
    /\ log = {}
    /\ \E db \in {"nil", "set"}, appEnv \in {"production", "development"} :
           health = [r \in Requests |-> NoRequest(db, appEnv)]

NextHealth ==
    \E r \in Requests :
        \/ HealthDBEnter(r)
        \/ \E err \in PingResults : PingReturns(r, err)
        \/ GoSend(r)
        \/ Deadline(r)
        \/ Cancel(r)
        \/ HealthDBSelect(r)

SpecHealth == InitHealth /\ [][NextHealth]_vars

\* the scheduler runs every goroutine that can take a step and the timer
\* fires; nothing makes Ping return or the client cancel
SpecHealthLive ==
    /\ SpecHealth
    /\ \A r \in Requests :
           /\ WF_vars(HealthDBEnter(r))
           /\ WF_vars(GoSend(r))
           /\ WF_vars(Deadline(r))
           /\ WF_vars(HealthDBSelect(r))

\* one client at a time while the mail server may refuse any message:
\* registrations, confirmation, and requests to change the email to either
\* address
NextDelivery ==
    \/ Tick
    \/ Return("w1")
    \/ \E email \in Emails, username \in Usernames : RegisterCreateUser("w1", email, username)
    \/ RegisterCreateVerification("w1", SentCode)
    \/ RegisterSend("w1")
    \/ RegisterSendError("w1")
    \/ \E email \in Emails : VerifyEmailGetUser("w1", email, SentCode)
    \/ VerifyEmailGetActive("w1")
    \/ VerifyEmailCheck("w1")
    \/ VerifyEmailSuccess("w1")
    \/ \E userID \in Authenticated, newEmail \in Emails :
           RequestEmailChangeGetUser("w1", userID, newEmail)
    \/ RequestEmailChangeGetByEmail("w1")
    \/ RequestEmailChangeDelete("w1")
    \/ RequestEmailChangeCreate("w1", SentCode)
    \/ RequestEmailChangeSend("w1")
    \/ RequestEmailChangeSendError("w1")

SpecDelivery == Init /\ [][NextDelivery]_vars

\* one client registers, confirms, requests and confirms a change of email
\* while the store may fail the DELETE that ends VerifyEmailChange
NextStoreFault ==
    \/ NextChangeSeq
    \/ VerifyEmailChangeDeleteError("w1")

SpecStoreFault == Init /\ [][NextStoreFault]_vars

\* one client whose account holds records of both purposes: it registers,
\* confirms with any code while the store may fail the DELETE that ends
\* VerifyEmail, then requests and confirms a change of email with any code
NextPurpose ==
    \/ Tick
    \/ RegisterCreateUser("w1", "a@x.com", "alice")
    \/ RegisterCreateVerification("w1", SentCode)
    \/ RegisterSend("w1")
    \/ VerifyEmailStep("w1")
    \/ VerifyEmailSuccessDeleteError("w1")
    \/ \E userID \in Authenticated : RequestEmailChangeGetUser("w1", userID, "b@x.com")
    \/ RequestEmailChangeGetByEmail("w1")
    \/ RequestEmailChangeDelete("w1")
    \/ RequestEmailChangeCreate("w1", SentCode)
    \/ RequestEmailChangeSend("w1")
    \/ VerifyEmailChangeStep("w1")

SpecPurpose == Init /\ [][NextPurpose]_vars

\* the server started with and without EMAIL_SMTP_HOST; one client registers,
\* confirms, requests and confirms changes of email
MailConfigs == {JWTConfig, [JWTConfig EXCEPT !.SMTPHost = ""]}

InitMail ==
    /\ users = {}
    /\ verifs = {}
    /\ nextVid = 1
    /\ now = 0
    /\ outbox = [e \in Emails |-> ""]
    /\ sends = 0
    /\ tokens = {}
    /\ maxAttempts \in 1..MaxAttemptsBound
    /\ wk = [w \in AllWorkers |-> Idle]
    /\ res = [w \in AllWorkers |-> NoRes]
    /\ confirmed = {}
    /\ issued = <<>>
    /\ cfg \in MailConfigs
    /\ nextJti = 1
    /\ log = {}
    /\ health = [r \in Requests |-> NoRequest("set", "production")]

SpecMail == InitMail /\ [][NextChangeSeq]_vars

\* the protected routes: two stored users, one of them an admin, whose
\* clients hold tokens minted for them and send requests with any header
HttpUsers ==
    {NewUser("u1", "a@x.com", Hash(RawPassword), "alice"),
     [NewUser("u2", "b@x.com", Hash(RawPassword), "bob") EXCEPT !.Role = "admin"]}

InitHttp ==
    /\ users = {fromDomain(u) : u \in HttpUsers}
    /\ verifs = {}
    /\ nextVid = 1
    /\ now = 0
    /\ outbox = [e \in Emails |-> ""]
    /\ sends = 0
    /\ tokens = {}
    /\ maxAttempts = 1
    /\ wk = [w \in AllWorkers |-> Idle]
    /\ res = [w \in AllWorkers |-> NoRes]
    /\ confirmed = {}
    /\ issued = <<>>
    /\ cfg = JWTConfig
    /\ nextJti = 1
    /\ log = {}
    /\ health = [r \in Requests |-> NoRequest("set", "production")]

\* a token pair is handed to the client of a stored user
HttpIssue(u) ==
    /\ nextJti <= MaxJti
    /\ tokens' = tokens \cup TokenPair(u)
    /\ nextJti' = nextJti + 1
    /\ UNCHANGED <<users, verifs, nextVid, now, outbox, sends, maxAttempts, wk, res, confirmed, issued, cfg, log, health>>

NextHttp ==
    \/ Tick
    \/ Return("w1")
    \/ \E u \in List : HttpIssue(u)
    \/ \E h \in Headers : ServeGetMe("w1", h)
    \/ \E h \in Headers, idStr \in IdParams : ServeGetByID("w1", h, idStr)
    \/ \E h \in Headers : ServeListUsers("w1", h)
    \/ \E h \in Headers : ServeDeleteMe("w1", h)

SpecHttp == InitHttp /\ [][NextHttp]_vars

\* one client registers and confirms accounts and changes their emails; two
\* clients edit profiles and delete accounts with the access tokens handed
\* out (the target of a change is free when it is confirmed: the conflict of
\* VerifyEmailChange is the subject of SpecConflict)
ProfileSetup ==
    \/ \E email \in Emails, username \in Usernames : RegisterCreateUser("w1", email, username)
    \/ RegisterCreateVerification("w1", SentCode)
    \/ RegisterSend("w1")
    \/ \E email \in Emails : VerifyEmailGetUser("w1", email, SentCode)
    \/ VerifyEmailGetActive("w1")
    \/ VerifyEmailCheck("w1")
    \/ VerifyEmailSuccess("w1")
    \/ \E userID \in Authenticated, newEmail \in Emails :
          RequestEmailChangeGetUser("w1", userID, newEmail)
    \/ RequestEmailChangeGetByEmail("w1")
    \/ RequestEmailChangeDelete("w1")
    \/ RequestEmailChangeCreate("w1", SentCode)
    \/ RequestEmailChangeSend("w1")
    \/ \E userID \in Authenticated : VerifyEmailChangeGetUser("w1", userID, SentCode)
    \/ VerifyEmailChangeGetActive("w1")
    \/ VerifyCode("w1")
    \/ VerifyEmailChangeCheckEmail("w1")
    \/ VerifyEmailChangeUpdate("w1")
    \/ VerifyEmailChangeDelete("w1")

ProfileStep(w) ==
    \/ Return(w)
    \/ \E userID \in Authenticated, username \in ProfileInputs :
          UpdateProfileGetUser(w, userID, username)
    \/ UpdateProfileUpdate(w)
    \/ \E userID \in Authenticated : DeleteAccount(w, userID)

NextProfile ==
    \/ ProfileSetup
    \/ \E w \in ChangeWorkers : ProfileStep(w)

SpecProfile == Init /\ [][NextProfile]_vars

\* ------------------------------------------------------------------------
\* jwt.Service on its own: a client has a token minted, holds it while time
\* passes and the service may be restarted with another configuration, then
\* presents it as an access or as a refresh token
\* ------------------------------------------------------------------------
Secrets == {"", AccessSecret, RefreshSecret}
Issuers == {"", Issuer, "other-app"}

\* the checks of Config.Validate on the jwt block
Validate(c) == c.AccessSecret # "" /\ c.RefreshSecret # ""

JWTConfigs ==
    {c \in [AccessSecret : Secrets, RefreshSecret : Secrets,
            AccessTTL : {AccessTTL}, RefreshTTL : {RefreshTTL},
            Issuer : Issuers, SMTPHost : {SMTPHost}] : Validate(c)}

JwtUsers ==
    {[NewUser("u1", "a@x.com", Hash(RawPassword), "alice")
        EXCEPT !.Role = role, !.IsEmailVerified = verified] :
        role \in {"user", "admin"}, verified \in BOOLEAN}

InitJwt ==
    /\ users = {}
    /\ verifs = {}
    /\ nextVid = 1
    /\ now = 0
    /\ outbox = [e \in Emails |-> ""]
    /\ sends = 0
    /\ tokens = {}
    /\ maxAttempts = 1
    /\ wk = [w \in AllWorkers |-> Idle]
    /\ res = [w \in AllWorkers |-> NoRes]
    /\ confirmed = {}
    /\ issued = <<>>
    /\ cfg \in JWTConfigs
    /\ nextJti = 1
    /\ log = {}
    /\ health = [r \in Requests |-> NoRequest("set", "production")]

\* NewService(cfg) with another configuration that Validate accepts
JwtRestart(c) ==
    /\ c # cfg
    /\ cfg' = c
    /\ UNCHANGED <<users, verifs, nextVid, now, outbox, sends, tokens, maxAttempts, wk, res, confirmed, issued, nextJti, log, health>>

JwtGenerateAccess(w, u) ==
    /\ wk[w].pc = "idle"
    /\ Goto(w, [Idle EXCEPT !.pc = "jwt_hold", !.op = "GenerateAccessToken",
                            !.user = {u}, !.token = {GenerateAccessToken(u)},
                            !.at = now, !.by = {cfg}])
    /\ UNCHANGED <<users, verifs, nextVid, now, outbox, sends, tokens, maxAttempts, confirmed, issued, cfg, nextJti, log, health>>

JwtGenerateRefresh(w, u) ==
    /\ wk[w].pc = "idle"
    /\ nextJti <= MaxJti
    /\ nextJti' = nextJti + 1
    /\ Goto(w, [Idle EXCEPT !.pc = "jwt_hold", !.op = "GenerateRefreshToken",
                            !.user = {u}, !.token = {GenerateRefreshToken(u)[1]},
                            !.sent = GenerateRefreshToken(u)[2],
                            !.at = now, !.by = {cfg}])
    /\ UNCHANGED <<users, verifs, nextVid, now, outbox, sends, tokens, maxAttempts, confirmed, issued, cfg, log, health>>

\* the result of a parse, with what the client held
Parsed(w, op, r) ==
    [Result(op, r.err) EXCEPT !.code = wk[w].op, !.token = wk[w].token,
                              !.claims = r.claims, !.input = wk[w].user,
                              !.by = {cfg}]

JwtParseAccess(w) ==
    /\ wk[w].pc = "jwt_hold"
    /\ Finish(w, Parsed(w, "ParseAccessToken", ParseAccessToken(One(wk[w].token))))
    /\ UNCHANGED <<users, verifs, nextVid, now, outbox, sends, tokens, maxAttempts, confirmed, issued, cfg, nextJti, log, health>>

JwtParseRefresh(w) ==
    /\ wk[w].pc = "jwt_hold"
    /\ Finish(w, Parsed(w, "ParseRefreshToken", ParseRefreshToken(One(wk[w].token))))
    /\ UNCHANGED <<users, verifs, nextVid, now, outbox, sends, tokens, maxAttempts, confirmed, issued, cfg, nextJti, log, health>>

NextJwt ==
    \/ Tick
    \/ Return("w1")
    \/ \E c \in JWTConfigs : JwtRestart(c)
    \/ \E u \in JwtUsers : JwtGenerateAccess("w1", u)
    \/ \E u \in JwtUsers : JwtGenerateRefresh("w1", u)
    \/ JwtParseAccess("w1")
    \/ JwtParseRefresh("w1")

SpecJwt == InitJwt /\ [][NextJwt]_vars

\* one client: register, verify, log in, delete the account, refresh, ask
\* for the profile
NextRefresh ==
    \/ Tick
    \/ Return("w1")
    \/ \E email \in Emails, username \in Usernames : RegisterCreateUser("w1", email, username)
    \/ RegisterCreateVerification("w1", SentCode)
    \/ RegisterSend("w1")
    \/ \E email \in Emails, code \in Codes : VerifyEmailGetUser("w1", email, code)
    \/ VerifyEmailGetActive("w1")
    \/ VerifyEmailCheck("w1")
    \/ VerifyEmailExceeded("w1")
    \/ VerifyEmailSuccess("w1")
    \/ \E email \in Emails, rawPassword \in LoginPasswords : Login("w1", email, rawPassword)
    \/ \E userID \in Authenticated : DeleteAccount("w1", userID)
    \/ \E t \in tokens : Refresh("w1", t)
    \/ \E t \in tokens : ServeGetMe("w1", Bearer(t))

SpecRefresh == Init /\ [][NextRefresh]_vars

\* the code generator on its own, for every length and every behaviour of the
\* entropy source
NextCode ==
    \/ Return("w1")
    \/ \E length \in (0 - 1)..MaxCodeLen : \E rnd \in RandReads(length) :
          GenerateCall("w1", length, rnd)

SpecCode == Init /\ [][NextCode]_vars

\* ------------------------------------------------------------------------
\* properties
\* ------------------------------------------------------------------------
Finished(w, op) == wk[w].pc = "done" /\ res[w].op = op

\* the registration-purpose records stored for a user
RecordsOf(u) == {v \in verifs : v.userID = u /\ v.newEmail = NULL}

\* ids of the registration-purpose records ever issued to a user
IssuedTo(u) ==
    {i \in 1..Len(issued) : issued[i].userID = u /\ issued[i].via # "RequestEmailChange"}

Latest(u) == CHOOSE i \in IssuedTo(u) : \A j \in IssuedTo(u) : j <= i

\* the newest record issued to the user ended with attempts exceeded
Locked(u) == IssuedTo(u) # {} /\ issued[Latest(u)].exceeded

\* C1: under any interleaving of concurrent wrong-code checks the stored
\* attempts counter of a record never exceeds max_attempts + 1.
C1_AttemptsBounded == \A v \in verifs : v.attempts <= v.maxAttempts + 1

\* C2: when at least max_attempts wrong-code checks against one record have
\* all finished with a verdict on the code, exactly one of them returned
\* attempts-exceeded and the record is deleted.
C2_ExactlyOneExceeded ==
    \A vid \in 1..Len(issued) :
        LET checks == {w \in AllWorkers : /\ Finished(w, "VerifyEmailChange")
                                          /\ res[w].vid = vid
                                          /\ res[w].code # SentCode
                                          /\ res[w].out \in {"ErrVerificationCodeInvalid",
                                                            "ErrVerificationAttemptsExceeded"}}
            exceeded == {w \in checks : res[w].out = "ErrVerificationAttemptsExceeded"}
            running == {w \in AllWorkers : /\ wk[w].op = "VerifyEmailChange"
                                           /\ wk[w].v # {}
                                           /\ One(wk[w].v).id = vid}
        IN (Cardinality(checks) >= maxAttempts /\ running = {})
               => (Cardinality(exceeded) = 1 /\ VerifGetByID(vid) = {})

\* C3: VerifyCode on a record whose expires_at is before the current time
\* returns Expired for every submitted code and leaves the stored records,
\* and so the attempts counter, unchanged.
C3_ExpiredBeforeCompare ==
    [][\A w \in AllWorkers :
          (/\ wk[w].pc = "vc_verifyCode"
           /\ wk'[w] # wk[w]
           /\ now > One(wk[w].v).expiresAt)
              => (/\ wk'[w].pc = "vc_expired"
                  /\ wk'[w].sent = "VerificationExpired"
                  /\ verifs' = verifs)]_vars

\* two checks, one with the right and one with a wrong code, both got Expired
\* and the record they loaded is still stored as loaded
C3_Witness ==
    \E w1, w2 \in AllWorkers :
        /\ wk[w1].pc = "vc_expired" /\ wk[w1].code = SentCode
        /\ wk[w2].pc = "vc_expired" /\ wk[w2].code # SentCode
        /\ wk[w1].v \subseteq verifs
        /\ wk[w2].v \subseteq verifs

\* C4: for one record at most one check with the correct code returns
\* success.
C4_AtMostOneSuccess ==
    \A w1, w2 \in AllWorkers :
        (/\ w1 # w2
         /\ wk[w1].pc = "done" /\ wk[w2].pc = "done"
         /\ res[w1].op \in {"VerifyEmail", "VerifyEmailChange"}
         /\ res[w2].op = res[w1].op
         /\ res[w1].out = "ok" /\ res[w2].out = "ok")
            => res[w1].vid # res[w2].vid

C6_RoundTrip ==
    \A w \in AllWorkers :
        (/\ Finished(w, "Login")
         /\ res[w].code = RawPassword
         /\ res[w].user \in confirmed)
            => (res[w].out = "ok" /\ res[w].tokens # {} /\ StoredVerified(res[w].user))

\* the Login that follows a successful VerifyEmail is refused
C6_Witness ==
    \E w \in AllWorkers :
        /\ Finished(w, "Login")
        /\ res[w].code = RawPassword
        /\ res[w].user \in confirmed
        /\ res[w].out = "ErrEmailNotVerified"

\* the verdict of a finished VerifyEmail against the number of wrong codes
\* its record has seen
C7_Outcomes ==
    \A w \in AllWorkers :
        (Finished(w, "VerifyEmail") /\ res[w].vid # 0) =>
            LET k == issued[res[w].vid].tries
            IN /\ res[w].out = "ErrVerificationCodeInvalid" => (k >= 1 /\ k < maxAttempts)
               /\ res[w].out = "ErrVerificationAttemptsExceeded"
                     => (k = maxAttempts /\ RecordsOf(res[w].user) = {})
               /\ res[w].out = "ok" => res[w].code = outbox[res[w].email]

\* a wrong code against a live record is counted; a locked user gets
\* ErrVerificationCodeNotFound
C7_Step(w) ==
    /\ (/\ wk[w].pc = "ve_check"
        /\ now <= One(wk[w].v).expiresAt
        /\ wk[w].code # outbox[wk[w].email])
           => \/ wk'[w].pc = "ve_exceeded"
              \/ wk'[w].pc = "done" /\ res'[w].out = "ErrVerificationCodeInvalid"
    /\ (/\ wk'[w].pc = "done"
        /\ res'[w].op = "VerifyEmail"
        /\ res'[w].user # ""
        /\ Locked(res'[w].user))
           => res'[w].out = "ErrVerificationCodeNotFound"

\* C7: the k-th consecutive wrong-code VerifyEmail against a freshly issued
\* record returns ErrVerificationCodeInvalid for k < max_attempts and
\* ErrVerificationAttemptsExceeded for k = max_attempts, which removes the
\* user's records; from then on VerifyEmail returns
\* ErrVerificationCodeNotFound for every code until a record is issued again.
C7_InvalidThenExceededThenNotFound ==
    []C7_Outcomes /\ [][\A w \in AllWorkers : wk'[w] # wk[w] => C7_Step(w)]_vars

\* after two wrong codes with max_attempts = 2 the correct code is refused
C7_Witness ==
    \E w \in AllWorkers :
        /\ Finished(w, "VerifyEmail")
        /\ res[w].out = "ErrVerificationCodeNotFound"
        /\ res[w].code = outbox[res[w].email]
        /\ Locked(res[w].user)
        /\ maxAttempts = 2
        /\ issued[Latest(res[w].user)].tries = 2

\* the store after a finished resend, and what a successful VerifyEmail used
C8_Fresh ==
    \A w \in AllWorkers :
        /\ (Finished(w, "Resend") /\ res[w].vid # 0) =>
              /\ res[w].out = "ok"
              /\ res[w].vid = Latest(res[w].user)
              /\ \E v \in verifs :
                    /\ RecordsOf(res[w].user) = {v}
                    /\ v.id = res[w].vid
                    /\ v.attempts = 0
                    /\ Compare(v.codeHash, outbox[res[w].email])
        /\ (Finished(w, "VerifyEmail") /\ res[w].out = "ok") =>
              /\ res[w].vid = Latest(res[w].user)
              /\ res[w].code = outbox[res[w].email]
              /\ res[w].tokens # {}
              /\ RecordsOf(res[w].user) = {}

\* the mailed code against the live resent record leads to success
C8_Step(w) ==
    /\ (/\ wk[w].pc = "ve_check"
        /\ issued[One(wk[w].v).id].via = "Resend"
        /\ now <= One(wk[w].v).expiresAt
        /\ wk[w].code = outbox[wk[w].email])
           => wk'[w].pc = "ve_success"
    /\ wk[w].pc = "ve_success" => (wk'[w].pc = "done" /\ res'[w].out = "ok")

\* C8: after a successful ResendVerificationCode the user has exactly one
\* record, the fresh one with attempts = 0 that holds the code just mailed;
\* a VerifyEmail that succeeds was checked against the newest record with
\* the code last mailed, and VerifyEmail with that code against the unexpired
\* resent record succeeds with a token pair.
C8_ResendReplacesCode ==
    []C8_Fresh /\ [][\A w \in AllWorkers : wk'[w] # wk[w] => C8_Step(w)]_vars

\* VerifyEmail succeeded against a record issued by a resend
C8_Witness ==
    \E w \in AllWorkers :
        /\ Finished(w, "VerifyEmail")
        /\ res[w].out = "ok"
        /\ res[w].tokens # {}
        /\ issued[res[w].vid].via = "Resend"

\* C9: ResendVerificationCode for an address without a user succeeds and
\* creates and sends nothing; for a user whose email has been verified it
\* reports ErrEmailAlreadyVerified and creates and sends nothing.
C9_ResendNoOp ==
    \A w \in AllWorkers :
        Finished(w, "Resend") =>
            /\ res[w].user = "" => (res[w].out = "ok" /\ res[w].vid = 0 /\ res[w].code = "")
            /\ res[w].user \in confirmed
                  => (/\ res[w].out = "ErrEmailAlreadyVerified"
                      /\ res[w].vid = 0
                      /\ res[w].code = "")

\* C10: a rejected Register reports ErrEmailExists when the email belongs to
\* a verified account, ErrEmailUnverifiedExists when it belongs to an
\* unverified account, and ErrUsernameExists when only the username is taken.
C10_RegisterRejects ==
    \A w \in AllWorkers :
        (Finished(w, "Register") /\ res[w].out # "ok") =>
            LET owner == {m \in ActiveRows : m.email = res[w].email}
            IN /\ (\E m \in owner : m.id \in confirmed) => res[w].out = "ErrEmailExists"
               /\ (\E m \in owner : m.id \notin confirmed)
                     => res[w].out = "ErrEmailUnverifiedExists"
               /\ owner = {} => res[w].out = "ErrUsernameExists"


\* the state a successful Register leaves behind
C11_State ==
    \A w \in AllWorkers :
        Finished(w, "Register") /\ res[w].out = "ok" =>
            /\ \E m \in ActiveRows : /\ m.id = res[w].user
                                     /\ m.email = res[w].email
                                     /\ ~m.is_email_verified
            /\ \E v \in verifs :
                  /\ {r \in verifs : r.userID = res[w].user} = {v}
                  /\ v.attempts = 0
                  /\ v.maxAttempts = maxAttempts
                  /\ v.newEmail = NULL
                  /\ v.expiresAt = v.createdAt + verificationTTL
                  /\ Compare(v.codeHash, outbox[res[w].email])
                  /\ outbox[res[w].email] = res[w].code
                  /\ v.codeHash # res[w].code
            /\ res[w].tokens = {}

\* the steps of Register: the record is stamped with the current time and
\* the code goes to the email collaborator in the last step only
C11_Step(w) ==
    /\ wk[w].pc = "reg_verif" /\ wk'[w].pc = "reg_send" =>
          \E v \in verifs' :
              /\ verifs' = verifs \cup {v} /\ v \notin verifs
              /\ v.createdAt = now
              /\ v.expiresAt = now + verificationTTL
    /\ wk[w].pc = "reg_verif" => sends' = sends
    /\ wk[w].pc = "reg_send" /\ wk'[w].pc = "done" =>
          /\ sends' = sends + 1
          /\ outbox' = [outbox EXCEPT ![res'[w].email] = wk[w].sent]
          /\ tokens' = tokens

LoginResponse(r) == [out |-> r.out, tokens |-> r.tokens]

\* C12: Login answers an unknown email and a known email with a wrong
\* password with the same ErrInvalidCredentials, whatever the verified state
\* of the account, and answers ErrEmailNotVerified only when the supplied
\* password is the account's password.
C12_LoginUniform ==
    /\ \A e \in Emails, p \in LoginPasswords :
          LET known == GetByEmail(e)
              r == LoginResult(e, p)
          IN /\ (known = {} \/ ~Compare(One(known).PasswordHash, p)) =>
                    LoginResponse(r) = [out |-> "ErrInvalidCredentials", tokens |-> {}]
             /\ r.out = "ErrEmailNotVerified" =>
                    known # {} /\ Compare(One(known).PasswordHash, p)
    /\ \A w \in AllWorkers :
          Finished(w, "Login") =>
              LoginResponse(res[w]) = LoginResponse(LoginResult(res[w].email, res[w].code))

C12_Witness ==
    /\ Finished("w1", "Login")
    /\ GetByEmail(res["w1"].email) # {}
    /\ res["w1"].code = "wrong"
    /\ res["w1"].out = "ErrInvalidCredentials"
    /\ \E e \in Emails : /\ GetByEmail(e) = {}
                         /\ LoginResponse(LoginResult(e, "wrong")) = LoginResponse(res["w1"])
    /\ LoginResult(res["w1"].email, RawPassword).out = "ErrEmailNotVerified"

\* the user named by the token presented to a finished Refresh
RefreshUser(w) == One(res[w].claims).UserID

\* C13: Refresh with a correctly signed, unexpired refresh token returns
\* ErrInvalidRefreshToken when the token's user is absent or soft-deleted and
\* ErrEmailNotVerified when the user is stored as unverified; a new pair is
\* minted only for an existing, non-deleted, verified user.
C13_RefreshGuards ==
    \A w \in AllWorkers :
        Finished(w, "Refresh") /\ res[w].claims # {} =>
            /\ (~\E m \in ActiveRows : m.id = RefreshUser(w)) =>
                   res[w].out = "ErrInvalidRefreshToken"
            /\ (\E m \in ActiveRows : m.id = RefreshUser(w) /\ ~m.is_email_verified) =>
                   res[w].out = "ErrEmailNotVerified"
            /\ (res[w].out = "ok" \/ res[w].tokens # {}) =>
                   /\ res[w].out = "ok"
                   /\ \E m \in ActiveRows : m.id = RefreshUser(w) /\ m.is_email_verified

\* a refresh token that is still valid is refused after its user was deleted
C13_Witness ==
    /\ Finished("w1", "Refresh")
    /\ res["w1"].claims # {}
    /\ \E m \in users : m.id = RefreshUser("w1") /\ m.deleted
    /\ ~\E m \in ActiveRows : m.id = RefreshUser("w1")
    /\ res["w1"].out = "ErrInvalidRefreshToken"

\* a finished Refresh whose token was correctly signed and unexpired and
\* whose user is active and has had the email confirmed by VerifyEmail
C14_Usable(w) ==
    /\ Finished(w, "Refresh")
    /\ res[w].claims # {}
    /\ res[w].token \subseteq tokens
    /\ RefreshUser(w) \in confirmed
    /\ \E m \in ActiveRows : m.id = RefreshUser(w)

\* C14: Refresh rotates without invalidating: a refresh token the service
\* handed out stays accepted until it expires, so every Refresh with it
\* before its expiry, for a user who is still active and verified, succeeds
\* and returns a new pair; nothing on the server records that it was used.
C14_RefreshReusable ==
    \A w \in AllWorkers :
        C14_Usable(w) => res[w].out = "ok" /\ res[w].tokens # {}

C14_Witness == C14_Usable("w1") /\ now < One(res["w1"].claims).ExpiresAt

\* the step in which worker w has its held token parsed
ParseStep(w) == wk[w].pc = "jwt_hold" /\ wk'[w].pc = "done"

\* C15: access and refresh tokens are never interchangeable: under every
\* jwt configuration that Config.Validate accepts, ParseAccessToken rejects
\* every token minted by GenerateRefreshToken and ParseRefreshToken rejects
\* every token minted by GenerateAccessToken.
C15_NotInterchangeable ==
    \A w \in AllWorkers :
        /\ Finished(w, "ParseAccessToken") /\ res[w].code = "GenerateRefreshToken" =>
               res[w].out # "nil"
        /\ Finished(w, "ParseRefreshToken") /\ res[w].code = "GenerateAccessToken" =>
               res[w].out # "nil"

\* a refresh token accepted as an access token
C15_Witness ==
    /\ Finished("w1", "ParseAccessToken")
    /\ res["w1"].code = "GenerateRefreshToken"
    /\ res["w1"].out = "nil"
    /\ One(res["w1"].by).AccessSecret = One(res["w1"].by).RefreshSecret

\* the claims carry what the user had when the token was minted
C16_Carries(c, u) ==
    /\ c.Subject = u.ID
    /\ c.UserID = u.ID
    /\ c.Email = u.Email
    /\ c.Username = u.Username
    /\ c.Role = u.Role
    /\ c.EmailVerified = u.IsEmailVerified

\* a token parsed by the operation of its own kind, by the service that
\* minted it, before its time to live has elapsed
C16_Step(w) ==
    /\ ParseStep(w) /\ wk[w].by = {cfg} /\ wk[w].op = "GenerateAccessToken"
         /\ res'[w].op = "ParseAccessToken" /\ now < wk[w].at + cfg.AccessTTL =>
            /\ res'[w].out = "nil"
            /\ \E c \in res'[w].claims : C16_Carries(c, One(wk[w].user))
    /\ ParseStep(w) /\ wk[w].by = {cfg} /\ wk[w].op = "GenerateRefreshToken"
         /\ res'[w].op = "ParseRefreshToken" /\ now < wk[w].at + cfg.RefreshTTL =>
            /\ res'[w].out = "nil"
            /\ \E c \in res'[w].claims : C16_Carries(c, One(wk[w].user)) /\ c.ID = wk[w].sent

\* C16: token round trip: parsing a token minted for user u, before its time
\* to live elapses, returns claims whose subject and user id equal u.ID and
\* whose email, username, role and email-verified flag are those u had at
\* issuance; the claims of a refresh token also carry the returned jti.
C16_RoundTrip == [][\A w \in AllWorkers : C16_Step(w)]_vars

\* a refresh token parsed back: user id and jti are there, the subject is not
C16_Witness ==
    /\ Finished("w1", "ParseRefreshToken")
    /\ res["w1"].code = "GenerateRefreshToken"
    /\ res["w1"].out = "nil"
    /\ \E c \in res["w1"].claims :
          /\ c.UserID = One(res["w1"].input).ID
          /\ c.ID # ""
          /\ c.Subject # One(res["w1"].input).ID

\* the issuer of the held token and the configured issuer are both set and differ
C17_Differ(w) ==
    /\ One(wk[w].token).payload.iss # ""
    /\ cfg.Issuer # ""
    /\ One(wk[w].token).payload.iss # cfg.Issuer

\* the held token is signed with the secret of the parse and has not expired
C17_Valid(w) ==
    /\ One(wk[w].token).sig = (IF res'[w].op = "ParseAccessToken"
                               THEN cfg.AccessSecret ELSE cfg.RefreshSecret)
    /\ now < One(wk[w].token).payload.exp

C17_Step(w) ==
    ParseStep(w) =>
        /\ res'[w].out = "ErrTokenInvalidIssuer" => C17_Valid(w) /\ C17_Differ(w)
        /\ C17_Valid(w) /\ C17_Differ(w) => res'[w].out = "ErrTokenInvalidIssuer"
        /\ C17_Valid(w) /\ ~C17_Differ(w) => res'[w].out = "nil" /\ res'[w].claims # {}

\* C17: verification of a token fails with the issuer error exactly when the
\* token's issuer and the configured issuer are both non-empty and differ; a
\* correctly signed, unexpired token with an empty issuer is accepted even by
\* a service that has an issuer configured.
C17_IssuerCheck == [][\A w \in AllWorkers : C17_Step(w)]_vars

\* a token without issuer accepted by a service with a configured issuer
C17_Witness ==
    /\ Finished("w1", "ParseAccessToken")
    /\ res["w1"].out = "nil"
    /\ One(res["w1"].token).payload.iss = ""
    /\ One(res["w1"].by).Issuer = Issuer

\* the records of a user that have not expired, per purpose
ActiveRegistration(u) ==
    {v \in verifs : v.userID = u /\ v.newEmail = NULL /\ v.expiresAt > now}

ActiveEmailChange(u) ==
    {v \in verifs : v.userID = u /\ v.newEmail # NULL /\ v.expiresAt > now}

\* C18: in every reachable state each user has at most one active
\* (non-expired) verification record per purpose, registration and email
\* change, for any sequence or interleaving of the requests that create them.
C18_OneActivePerPurpose ==
    \A u \in UserIds :
        /\ Cardinality(ActiveRegistration(u)) <= 1
        /\ Cardinality(ActiveEmailChange(u)) <= 1

\* two change-email requests of one user have both stored their record
C18_Witness ==
    /\ \E u \in UserIds : Cardinality(ActiveEmailChange(u)) = 2
    /\ Finished("w1", "RequestEmailChange") /\ res["w1"].out = "ok"
    /\ Finished("w2", "RequestEmailChange") /\ res["w2"].out = "ok"

\* another active account owns the email
OwnedByOther(email, id) == \E m \in ActiveRows : m.email = email /\ m.id # id

\* the email-change records stored for a user
ChangeRecordsOf(u) == {v \in verifs : v.userID = u /\ v.newEmail # NULL}

\* RequestEmailChange, at its look-up of the new email
C19_RequestStep(w) ==
    wk[w].pc = "rc_getByEmail" /\ wk'[w].pc # "rc_getByEmail"
      /\ OwnedByOther(wk[w].email, One(wk[w].user).ID) =>
        /\ wk'[w].pc = "done"
        /\ res'[w].out = "ErrEmailExists"
        /\ verifs' = verifs /\ nextVid' = nextVid /\ sends' = sends

\* VerifyEmailChange, after the code was accepted: at its look-up of the
\* target email and at the step that follows a conflict
C19_VerifyStep(w) ==
    /\ wk[w].pc = "vc_checkEmail" /\ wk'[w].pc # "vc_checkEmail"
         /\ OwnedByOther(One(wk[w].v).newEmail, One(wk[w].user).ID) =>
            wk'[w].pc = "vc_conflict"
    /\ wk[w].pc = "vc_conflict" /\ wk'[w].pc # "vc_conflict" =>
        /\ wk'[w].pc = "done"
        /\ res'[w].out = "ErrEmailExists"
        /\ {v \in verifs' : v.userID = One(wk[w].user).ID /\ v.newEmail # NULL} = {}
        /\ users' = users

\* a finished change of email never ends in success while another account
\* owns the target, and a refusal leaves the requester's email as it was
C19_State ==
    \A w \in AllWorkers :
        Finished(w, "VerifyEmailChange") /\ res[w].out = "ErrEmailExists" =>
            /\ ChangeRecordsOf(res[w].user) = {}
            /\ \E m \in ActiveRows : m.id = res[w].user /\ m.email = "a@x.com"

\* C19: RequestEmailChange to an email owned by another active user fails
\* with ErrEmailExists and creates no record; when another account takes the
\* target email after a successful RequestEmailChange and before
\* VerifyEmailChange, VerifyEmailChange with the correct code fails with
\* ErrEmailExists, deletes the pending record and leaves the requesting
\* user's email unchanged.
C19_EmailConflict ==
    /\ []C19_State
    /\ [][\A w \in AllWorkers : C19_RequestStep(w) /\ C19_VerifyStep(w)]_vars

\* the second account took b@x.com between request and confirmation
C19_Witness ==
    /\ Finished("w1", "VerifyEmailChange")
    /\ res["w1"].out = "ErrEmailExists"
    /\ res["w1"].code = SentCode
    /\ outbox["b@x.com"] = SentCode
    /\ OwnedByOther("b@x.com", res["w1"].user)
    /\ ChangeRecordsOf(res["w1"].user) = {}
    /\ \E m \in ActiveRows : m.id = res["w1"].user /\ m.email = "a@x.com"

\* RequestEmailChange is carried on only for an email other than the one
\* the user has
C20_RequestStep(w) ==
    wk[w].pc = "idle" /\ wk'[w].pc = "rc_getByEmail" =>
        wk'[w].email # One(wk'[w].user).Email

\* the refusal of the current email deletes, creates and sends nothing
C20_Refused(w) ==
    wk[w].pc = "idle" /\ wk'[w].pc = "done"
      /\ res'[w].op = "RequestEmailChange" /\ res'[w].out = "ErrEmailSameAsCurrent" =>
        verifs' = verifs /\ nextVid' = nextVid /\ sends' = sends /\ outbox' = outbox

\* VerifyEmailChange, with the code accepted, does not go on to success when
\* the target of the pending record is the email the user already has
C20_VerifyStep(w) ==
    wk[w].pc = "vc_update" /\ One(wk[w].v).newEmail = One(wk[w].user).Email =>
        wk'[w].pc # "vc_delete"

\* C20: an email equal to the current one is rejected at both steps:
\* RequestEmailChange with newEmail = current email returns
\* ErrEmailSameAsCurrent without deleting or creating records or sending,
\* and VerifyEmailChange rejects a pending record whose target email equals
\* the user's current email at verify time.
C20_SameAsCurrent ==
    [][\A w \in AllWorkers : C20_RequestStep(w) /\ C20_Refused(w) /\ C20_VerifyStep(w)]_vars

\* a confirmation in flight whose record targets the email the user was
\* read with
C20_Witness ==
    \E w \in ChangeWorkers :
        /\ wk[w].pc = "vc_update"
        /\ One(wk[w].v).newEmail = One(wk[w].user).Email
        /\ \E m \in ActiveRows : m.id = One(wk[w].user).ID /\ m.email = One(wk[w].v).newEmail

\* the first half alone
C20_RequestHalf == [][\A w \in AllWorkers : C20_RequestStep(w) /\ C20_Refused(w)]_vars

\* the row of the user after the step that ends a successful VerifyEmailChange
C21_Stored(w) ==
    \E m \in users' :
        /\ ~m.deleted /\ m.id = One(wk[w].user).ID
        /\ m.email = One(wk[w].v).newEmail
        /\ m.is_email_verified

\* the stored email alone
C21_StoredEmail(w) ==
    \E m \in users' :
        /\ ~m.deleted /\ m.id = One(wk[w].user).ID
        /\ m.email = One(wk[w].v).newEmail

C21_Returned(w) ==
    \E u \in res'[w].input :
        /\ u.ID = One(wk[w].user).ID
        /\ u.Email = One(wk[w].v).newEmail
        /\ u.IsEmailVerified

C21_NoRecord(w) ==
    {v \in verifs' : v.userID = One(wk[w].user).ID /\ v.newEmail # NULL} = {}

C21_Success(w) ==
    wk[w].pc = "vc_delete" /\ wk'[w].pc = "done" /\ res'[w].out = "ok"

\* C21: when VerifyEmailChange succeeds, the user's stored email equals the
\* target email of the pending record that was checked, the stored
\* emailVerified flag is true, the returned user reflects both, and no
\* email-change record remains for that user.
C21_ChangeApplied ==
    [][\A w \in AllWorkers :
          C21_Success(w) => C21_Stored(w) /\ C21_Returned(w) /\ C21_NoRecord(w)]_vars

\* the claim without the stored flag
C21_ButFlag ==
    [][\A w \in AllWorkers :
          C21_Success(w) => C21_StoredEmail(w) /\ C21_Returned(w) /\ C21_NoRecord(w)]_vars

\* a change of email that succeeded and left the flag of the row unset
C21_Witness ==
    /\ Finished("w1", "VerifyEmailChange") /\ res["w1"].out = "ok"
    /\ \E m \in ActiveRows : /\ m.id = res["w1"].user
                             /\ m.email = res["w1"].email
                             /\ m.email = "b@x.com"
                             /\ ~m.is_email_verified
    /\ \E u \in res["w1"].input : u.IsEmailVerified

\* ids of the email-change records ever issued to a user
ChangeIssuedTo(u) ==
    {i \in 1..Len(issued) : issued[i].userID = u /\ issued[i].via = "RequestEmailChange"}

\* the newest email-change record issued to the user ended with attempts exceeded
ChangeLocked(u) ==
    /\ ChangeIssuedTo(u) # {}
    /\ issued[CHOOSE i \in ChangeIssuedTo(u) : \A j \in ChangeIssuedTo(u) : j <= i].exceeded

\* the report of exceeded attempts, or of an expired record, removes the
\* user's email-change records
C22_Report(w) ==
    (/\ wk[w].pc \in {"vc_exceeded", "vc_expired"}
     /\ wk'[w].pc = "done") =>
        /\ res'[w].out = (IF wk[w].pc = "vc_exceeded"
                          THEN "ErrVerificationAttemptsExceeded"
                          ELSE "ErrVerificationCodeNotFound")
        /\ {v \in verifs' : v.userID = One(wk[w].user).ID /\ v.newEmail # NULL} = {}

\* without a record every code, the correct one included, is answered with
\* ErrVerificationCodeNotFound
C22_Later(w) ==
    /\ (/\ wk[w].pc = "vc_getActive" /\ wk'[w].pc # "vc_getActive"
        /\ ChangeRecordsOf(One(wk[w].user).ID) = {}) =>
            wk'[w].pc = "done" /\ res'[w].out = "ErrVerificationCodeNotFound"
    /\ (/\ wk'[w].pc = "done" /\ wk[w].pc # "done"
        /\ res'[w].op = "VerifyEmailChange"
        /\ res'[w].user # ""
        /\ ChangeLocked(res'[w].user)) =>
            res'[w].out = "ErrVerificationCodeNotFound"

\* a record appears only in the creating step of a RequestEmailChange
C22_NoReissue ==
    \A u \in UserIds :
        (\E v \in verifs' : /\ v.id \notin {r.id : r \in verifs}
                             /\ v.userID = u /\ v.newEmail # NULL) =>
            \E w \in AllWorkers : /\ wk[w].pc = "rc_create" /\ wk'[w].pc = "rc_send"
                                  /\ One(wk[w].user).ID = u

\* C22: after VerifyEmailChange reports ErrVerificationAttemptsExceeded, or
\* ErrVerificationCodeNotFound because the checked record had expired, no
\* email-change record remains for the user, and every later
\* VerifyEmailChange with any code, the correct one included, returns
\* ErrVerificationCodeNotFound until a new RequestEmailChange succeeds;
\* nothing issues a code again on its own.
C22_DeadUntilNewRequest ==
    [][(\A w \in AllWorkers : C22_Report(w) /\ C22_Later(w)) /\ C22_NoReissue]_vars

\* the correct code refused after the attempts were used up
C22_Witness ==
    /\ Finished("w1", "VerifyEmailChange")
    /\ res["w1"].out = "ErrVerificationCodeNotFound"
    /\ res["w1"].code = SentCode
    /\ ChangeLocked(res["w1"].user)
    /\ ChangeRecordsOf(res["w1"].user) = {}

\* ------------------------------------------------------------------------
\* C23: after any interleaving of Register, UpdateProfile, VerifyEmailChange
\* and DeleteAccount no two users that are not deleted share an email or a
\* username, and the email and username of a soft-deleted user can be
\* registered again by a new user
\* ------------------------------------------------------------------------
C23_Unique ==
    \A a \in users, b \in users :
        (~a.deleted /\ ~b.deleted /\ a.id # b.id)
            => (a.email # b.email /\ a.username # b.username)

\* a Register call creates its user exactly when no user that is not deleted
\* holds the email or the username
C23_Reusable ==
    \A w \in ChangeWorkers, email \in Emails, username \in Usernames :
        RegisterCreateUser(w, email, username)
            => ((~\E m \in users : ~m.deleted /\ (m.email = email \/ m.username = username))
                    <=> (\E r \in users' : /\ r \notin users
                                           /\ ~r.deleted
                                           /\ r.email = email
                                           /\ r.username = username))

C23_UniqueAmongActive == [](C23_Unique) /\ [][C23_Reusable]_vars

\* a new user holds the email and the username of a soft-deleted one
C23_Witness ==
    \E d \in users, r \in users :
        /\ d.deleted /\ ~r.deleted
        /\ d.id # r.id
        /\ d.email = r.email
        /\ d.username = r.username

\* the account with this id was soft-deleted
Deleted(id) == \E m \in users : m.id = id /\ m.deleted

\* ------------------------------------------------------------------------
\* C24: once DeleteAccount(u) has succeeded, GetByID, GetByEmail,
\* GetByUsername and List never return u; Login with u's email and its
\* correct password returns InvalidCredentials (as long as no new account
\* holds that email); Refresh with u's refresh token returns
\* InvalidRefreshToken; a profile request with an access token issued before
\* the deletion, and still accepted, is answered user_not_found (404)
\* ------------------------------------------------------------------------
C24_Store ==
    \A m \in users :
        m.deleted =>
            \A u \in GetByID(m.id) \cup GetByEmail(m.email)
                        \cup GetByUsername(m.username) \cup List : u.ID # m.id

C24_Login ==
    \A w \in AllWorkers :
        (/\ Finished(w, "Login")
         /\ res[w].code = RawPassword
         /\ \E m \in users : m.deleted /\ m.email = res[w].email
         /\ ~\E m \in ActiveRows : m.email = res[w].email)
            => res[w].out = "ErrInvalidCredentials"

C24_Refresh ==
    \A w \in AllWorkers :
        Finished(w, "Refresh") =>
            \A t \in res[w].token :
                Deleted(t.payload.sub) => res[w].out = "ErrInvalidRefreshToken"

C24_Profile ==
    \A w \in AllWorkers :
        (Finished(w, "GET /users/me") /\ res[w].user # "" /\ Deleted(res[w].user))
            => (res[w].vid = 404 /\ res[w].out = "user_not_found")

C24_LoginCase ==
    /\ Finished("w1", "Login")
    /\ res["w1"].code = RawPassword
    /\ \E m \in users : m.deleted /\ m.email = res["w1"].email
    /\ res["w1"].out = "ErrInvalidCredentials"

\* ------------------------------------------------------------------------
\* C25: for any interleaving of UpdateProfile(u) and DeleteAccount(u), a
\* store Update executing after SoftDelete has committed modifies no field
\* and is reported NotFound; a second SoftDelete is reported NotFound; no
\* row with deleted_at set is ever changed by Update
\* ------------------------------------------------------------------------
C25_UpdateStep ==
    \A w \in ChangeWorkers :
        (/\ wk[w].pc = "up_update"
         /\ wk'[w].pc = "done"
         /\ Deleted(One(wk[w].user).ID))
            => (users' = users /\ res'[w].out = "ErrNotFound")

C25_DeleteStep ==
    \A w \in ChangeWorkers :
        (/\ wk[w].pc = "idle"
         /\ wk'[w].pc = "done"
         /\ res'[w].op = "DeleteAccount"
         /\ Deleted(res'[w].user))
            => (users' = users /\ res'[w].out = "ErrNotFound")

C25_Frozen == \A m \in users : m.deleted => m \in users'

C25_DeletedRowsUntouched ==
    [][C25_UpdateStep /\ C25_DeleteStep /\ C25_Frozen]_vars

\* an UpdateProfile that read the user before the deletion and wrote after it
C25_Witness ==
    \E w \in ChangeWorkers :
        /\ Finished(w, "UpdateProfile")
        /\ res[w].input # {}
        /\ One(res[w].input).Username # "alice"
        /\ Deleted(res[w].user)
        /\ res[w].out = "ErrNotFound"

\* a second DeleteAccount of a deleted account
C25_SecondDelete ==
    \E w \in ChangeWorkers :
        /\ Finished(w, "DeleteAccount")
        /\ Deleted(res[w].user)
        /\ res[w].out = "ErrNotFound"

\* ------------------------------------------------------------------------
\* C26: UpdateProfile never changes the stored email: for every input and
\* every interleaving with VerifyEmailChange on the same user, its write
\* leaves the email of every row as it was, so the email stored after both
\* complete is the one written by VerifyEmailChange
\* ------------------------------------------------------------------------
C26_UpdateKeepsEmail ==
    \A w \in ChangeWorkers :
        (wk[w].pc = "up_update" /\ wk'[w].pc = "done")
            => \A m \in users : \E r \in users' : r.id = m.id /\ r.email = m.email

C26_EmailNotChanged == [][C26_UpdateKeepsEmail]_vars

\* both calls have returned success and the stored email is not the one
\* that VerifyEmailChange wrote
C26_Witness ==
    /\ Finished("w1", "VerifyEmailChange") /\ res["w1"].out = "ok"
    /\ Finished("w2", "UpdateProfile") /\ res["w2"].out = "ok"
    /\ res["w2"].user = res["w1"].user
    /\ \E m \in ActiveRows : m.id = res["w1"].user /\ m.email # res["w1"].email

\* ------------------------------------------------------------------------
\* C27: a user's emailVerified flag is false when the user is created by
\* Register and changes only from false to true, and only through a
\* successful VerifyEmail or VerifyEmailChange; no other operation
\* (UpdateProfile, RequestEmailChange, a failed or expired check,
\* ResendVerificationCode) ever sets it, and nothing ever resets it to false
\* ------------------------------------------------------------------------
\* the step belongs to a VerifyEmail or VerifyEmailChange call
C27_VerifyStep ==
    \E w \in AllWorkers :
        wk'[w] # wk[w] /\ wk[w].op \in {"VerifyEmail", "VerifyEmailChange"}

C27_Step ==
    /\ \A r \in users' :
           (~\E m \in users : m.id = r.id) => ~r.is_email_verified
    /\ \A m \in users, r \in users' :
           (r.id = m.id /\ r.is_email_verified # m.is_email_verified)
               => (~m.is_email_verified /\ r.is_email_verified /\ C27_VerifyStep)

\* the users that calls return carry the flag only out of the two operations
C27_Returned ==
    \A w \in AllWorkers :
        \A u \in res[w].input :
            u.IsEmailVerified => res[w].op \in {"VerifyEmail", "VerifyEmailChange"}

C28_StoreHalf == \A v \in verifs : \E c \in Codes : v.codeHash = Hash(c)

C28_LogHalf == \A e \in log : e.code \notin Codes

C28_NoPlainCode == C28_StoreHalf /\ C28_LogHalf

\* the fallback sender has logged the code of a registration
C28_Witness ==
    /\ cfg.SMTPHost = ""
    /\ \E e \in log : e.code \in Codes /\ outbox[e.email] = e.code

\* a request to a route behind Auth has been answered without Auth having
\* accepted a token
Rejected(w) ==
    /\ wk[w].pc = "done"
    /\ res[w].op \in {"GET /users/me", "GET /users/:id", "DELETE /users/me", "GET /admin/users"}
    /\ res[w].user = ""

\* ------------------------------------------------------------------------
\* C29: when the Auth middleware rejects a request to a protected route
\* (missing header, header that is not Bearer or has an empty token, token
\* that fails ParseAccessToken) the response is 401 and no later handler
\* runs; in particular GET /api/v1/users/:id without authorization never
\* executes the GetByID handler
\* ------------------------------------------------------------------------
C29_Status == \A w \in AllWorkers : Rejected(w) => res[w].vid = 401

C29_NoHandler == \A w \in AllWorkers : Rejected(w) => res[w].ran = {}

C29_RejectedStops == C29_Status /\ C29_NoHandler

\* GET /users/:id without a header: answered 401, yet the GetByID handler has
\* run and appended the profile to the response
C29_Witness ==
    /\ Rejected("w1")
    /\ res["w1"].op = "GET /users/:id"
    /\ One(res["w1"].header).parts = 0
    /\ res["w1"].vid = 401
    /\ "GetByID" \in res["w1"].ran
    /\ \E i \in 1..Len(res["w1"].writes) :
           res["w1"].writes[i].status = 200 /\ res["w1"].writes[i].body # {}

\* ------------------------------------------------------------------------
\* C30: GET /api/v1/admin/users is served only to a request with a valid
\* access token whose role claim is admin; a request with any other role or
\* with no role is answered 403 and the ListUsers handler does not run (a
\* request whose token Auth did not accept has no role: ListUsers does not
\* run for it either, and the status it is sent is the 401 of Auth)
\* ------------------------------------------------------------------------
C30_AdminOnly ==
    \A w \in AllWorkers :
        Finished(w, "GET /admin/users") =>
            /\ "ListUsers" \in res[w].ran =>
                   /\ res[w].role = "admin"
                   /\ \E t \in One(res[w].header).token :
                          /\ t \in tokens
                          /\ t.sig = cfg.AccessSecret
                          /\ t.payload.role = "admin"
                          /\ t.payload.sub = res[w].user
                   /\ res[w].vid = 200
            /\ res[w].role # "admin" => "ListUsers" \notin res[w].ran
            /\ (res[w].user # "" /\ res[w].role # "admin") => res[w].vid = 403

\* a valid token of a user who is not an admin is answered 403
C30_Witness ==
    /\ Finished("w1", "GET /admin/users")
    /\ res["w1"].user = "u1"
    /\ res["w1"].role = "user"
    /\ res["w1"].vid = 403
    /\ res["w1"].ran = {}

\* the list is served to an admin
C30_Served ==
    /\ Finished("w1", "GET /admin/users")
    /\ res["w1"].role = "admin"
    /\ res["w1"].vid = 200
    /\ "ListUsers" \in res["w1"].ran

\* ------------------------------------------------------------------------
\* C31: GenerateNumericCode(length) fails with an error for every length <= 0
\* and, for every length > 0, returns a string of exactly length characters
\* each of which is a decimal digit 0-9, or an error if the entropy source
\* fails, in which case no partial code is returned
\* ------------------------------------------------------------------------
DecimalDigits == {"0", "1", "2", "3", "4", "5", "6", "7", "8", "9"}

C31_NumericCode ==
    \A w \in AllWorkers :
        Finished(w, "GenerateNumericCode") =>
            LET in == One(res[w].input)
                failed == \E i \in 1..Len(in.rnd) : in.rnd[i] = RandFailure
            IN /\ in.length <= 0 => (res[w].out # "nil" /\ res[w].value = <<>>)
               /\ (in.length > 0 /\ ~failed) =>
                      /\ res[w].out = "nil"
                      /\ Len(res[w].value) = in.length
                      /\ \A i \in 1..in.length : res[w].value[i] \in DecimalDigits
               /\ (in.length > 0 /\ failed) =>
                      (res[w].out # "nil" /\ res[w].value = <<>>)

\* a code of the greatest length checked has been returned
C31_Witness ==
    /\ Finished("w1", "GenerateNumericCode")
    /\ One(res["w1"].input).length = MaxCodeLen
    /\ res["w1"].out = "nil"
    /\ Len(res["w1"].value) = MaxCodeLen

\* the entropy source failed after the first digit was drawn
C31_PartialFailure ==
    /\ Finished("w1", "GenerateNumericCode")
    /\ One(res["w1"].input).length = MaxCodeLen
    /\ One(res["w1"].input).rnd[1] # RandFailure
    /\ res["w1"].out # "nil"

\* ------------------------------------------------------------------------
\* C32: in VerifyCode, after a code mismatch the attempts value compared
\* with max_attempts is the one re-read from the store by id after
\* IncrementAttempts, never the value in the record the caller passed in:
\* VerifyCode returns Invalid only if that re-read value is below
\* max_attempts, and under any interleaving k completed failed checks on a
\* still-existing record leave its stored attempts increased by exactly k
\* ------------------------------------------------------------------------
C32_Decision ==
    \A w \in ChangeWorkers :
        (wk[w].pc = "vc_getByID" /\ wk'[w].pc # "vc_getByID") =>
            LET stored == VerifGetByID(One(wk[w].v).id)
            IN /\ (wk'[w].pc = "done" /\ res'[w].out = "ErrVerificationCodeInvalid")
                      => (stored # {} /\ One(stored).attempts < One(stored).maxAttempts)
               /\ (stored # {} /\ One(stored).attempts >= One(stored).maxAttempts)
                      => (wk'[w].pc = "vc_exceeded" /\ wk'[w].v = stored)

\* every failed check of an email-change record is in its stored counter
C32_Count ==
    \A v \in verifs : v.newEmail # NULL => v.attempts = issued[v.id].tries

C32_ReadBack == [](C32_Count) /\ [][C32_Decision]_vars

\* two failed checks of one record overlap: a caller about to read the
\* attempts back holds a record two increments behind the store
C32_Witness ==
    \E w \in ChangeWorkers :
        /\ wk[w].pc = "vc_getByID"
        /\ \E s \in VerifGetByID(One(wk[w].v).id) :
               /\ s.attempts = One(wk[w].v).attempts + 2
               /\ One(wk[w].v).attempts + 1 < s.maxAttempts

\* ------------------------------------------------------------------------
\* C33: VerifyEmail decides attempts-exceeded from the attempts value read
\* back from the store after its increment: whenever concurrent wrong-code
\* VerifyEmail calls have raised the stored attempts of a record to
\* max_attempts or more, one of them deletes it, so once no call on the
\* record is in flight no registration record with attempts >= max_attempts
\* is stored
\* ------------------------------------------------------------------------
C33_InFlight(vid) ==
    {w \in AllWorkers : /\ wk[w].op = "VerifyEmail"
                        /\ wk[w].pc # "done"
                        /\ wk[w].v # {}
                        /\ One(wk[w].v).id = vid}

C33_NoRecordAtLimit ==
    \A v \in verifs :
        (v.newEmail = NULL /\ C33_InFlight(v.id) = {}) => v.attempts < v.maxAttempts

\* two wrong-code calls that loaded the same record have both finished
C33_Witness ==
    \E w1, w2 \in AllWorkers :
        /\ w1 # w2
        /\ Finished(w1, "VerifyEmail") /\ Finished(w2, "VerifyEmail")
        /\ res[w1].vid = res[w2].vid
        /\ res[w1].code # SentCode /\ res[w2].code # SentCode
        /\ {res[w1].out, res[w2].out} \subseteq {"ErrVerificationCodeInvalid",
                                                 "ErrVerificationAttemptsExceeded"}

\* ------------------------------------------------------------------------
\* C34: a check returns Success only for a record in the Active state:
\* VerifyCode, and the check inside VerifyEmail, never accept a correct code
\* for a record whose stored attempts have already reached max_attempts
\* ------------------------------------------------------------------------
C34_Accepts(w) ==
    \/ wk[w].pc = "vc_verifyCode" /\ wk'[w].pc = "vc_checkEmail"
    \/ wk[w].pc = "ve_check" /\ wk'[w].pc = "ve_success"

C34_SuccessOnlyActive ==
    [][\A w \in AllWorkers :
          C34_Accepts(w) =>
              \A s \in VerifGetByID(One(wk[w].v).id) : s.attempts < s.maxAttempts]_vars

\* a correct code has been accepted for an email-change record
C34_Witness ==
    \E w \in ChangeWorkers :
        /\ wk[w].pc = "vc_checkEmail"
        /\ Compare(One(wk[w].v).codeHash, wk[w].code)

\* ------------------------------------------------------------------------
\* C35: if the email collaborator fails during Register, Register returns
\* an error while the user row and the verification record stay stored and
\* nothing is delivered, so a retried Register with the same email fails
\* with EmailExists; a RequestEmailChange whose delivery fails has already
\* deleted the older email-change records and stored the new, undelivered
\* one
\* ------------------------------------------------------------------------
SendFailed == "failed to send verification email"

C35_RegisterFails ==
    (wk["w1"].pc = "reg_send" /\ wk'["w1"].pc = "done" /\ res'["w1"].out = SendFailed) =>
        /\ users' = users /\ verifs' = verifs
        /\ outbox' = outbox /\ sends' = sends
        /\ \E m \in ActiveRows : m.id = res'["w1"].user /\ m.email = res'["w1"].email
        /\ \E v \in verifs : /\ v.userID = res'["w1"].user /\ v.newEmail = NULL
                             /\ v.codeHash = Hash(wk["w1"].sent)

C35_RetryFails ==
    (wk["w1"].pc = "idle" /\ wk'["w1"].pc # "idle" /\ wk'["w1"].op = "none"
        /\ res'["w1"].op = "Register"
        /\ \E m \in ActiveRows : m.email = res'["w1"].email)
       => (res'["w1"].out = "ErrEmailExists" /\ users' = users /\ verifs' = verifs)

C35_ChangeFails ==
    (wk["w1"].pc = "rc_send" /\ wk'["w1"].pc = "done" /\ res'["w1"].out = SendFailed) =>
        /\ users' = users /\ verifs' = verifs
        /\ outbox' = outbox /\ sends' = sends
        /\ {v.id : v \in {x \in verifs : x.userID = res'["w1"].user /\ x.newEmail # NULL}}
               = {res'["w1"].vid}
        /\ \E v \in verifs : /\ v.id = res'["w1"].vid
                             /\ v.newEmail = res'["w1"].email
                             /\ v.codeHash = Hash(wk["w1"].sent)

C35_ChangeCase ==
    /\ Finished("w1", "RequestEmailChange") /\ res["w1"].out = SendFailed
    /\ res["w1"].vid > 2

\* ------------------------------------------------------------------------
\* C36: whenever VerifyEmailChange returns an error of any kind, a failure
\* of the final record deletion included, the user's stored email and
\* emailVerified flag are the same as before the call
\* ------------------------------------------------------------------------
C36_ErrorLeavesEmail ==
    [][\A w \in AllWorkers :
          (wk[w].op = "VerifyEmailChange" /\ wk'[w].pc = "done" /\ res'[w].out # "ok") =>
              \A m \in users' :
                  m.id = One(wk[w].before).ID =>
                      /\ m.email = One(wk[w].before).Email
                      /\ m.is_email_verified = One(wk[w].before).IsEmailVerified]_vars

\* VerifyEmailChange has returned the error of the final deletion
C36_Witness ==
    /\ Finished("w1", "VerifyEmailChange")
    /\ res["w1"].out = "failed to delete verification codes"
    /\ VerifGetByID(res["w1"].vid) # {}

\* ------------------------------------------------------------------------
\* C37: the two purposes are isolated: RequestEmailChange and
\* VerifyEmailChange read, increment and delete only records whose target
\* email is set, so the registration-purpose records are unchanged by any
\* step of an email-change operation; VerifyEmail checks a submitted code
\* against, and increments, only a record whose target email is unset
\* ------------------------------------------------------------------------
\* the operation the step of worker w belongs to
C37_Op(w) ==
    IF wk[w].op # "none" THEN wk[w].op
    ELSE IF wk'[w].op # "none" THEN wk'[w].op
    ELSE res'[w].op

C37_Incremented ==
    {v \in verifs : \E n \in verifs' : n.id = v.id /\ n.attempts # v.attempts}

C37_EmailChangeSteps ==
    \A w \in AllWorkers :
        (wk'[w] # wk[w] /\ C37_Op(w) \in {"RequestEmailChange", "VerifyEmailChange"}) =>
            /\ {v \in verifs : v.newEmail = NULL} = {v \in verifs' : v.newEmail = NULL}
            /\ \A v \in wk'[w].v : v.newEmail # NULL

C37_VerifyEmailSteps ==
    \A w \in AllWorkers :
        (wk'[w] # wk[w] /\ C37_Op(w) = "VerifyEmail") =>
            /\ \A v \in wk'[w].v : v.newEmail = NULL
            /\ \A v \in C37_Incremented : v.newEmail = NULL

C37_PurposesIsolated == [][C37_EmailChangeSteps /\ C37_VerifyEmailSteps]_vars

\* the account holds a record of each purpose and a wrong code has been
\* checked against each of them
C37_Witness ==
    \E r, c \in verifs :
        /\ r.userID = c.userID
        /\ r.newEmail = NULL /\ c.newEmail # NULL
        /\ r.attempts > 0 /\ c.attempts > 0

\* ------------------------------------------------------------------------
\* C38: HealthDB always completes: it answers with the result of Ping when
\* only Ping has returned, and with 503 when only the deadline or the
\* request's cancellation has happened; the goroutine that runs Ping never
\* blocks forever on delivering its result, even when the handler has
\* already returned, because the result channel has capacity 1
\* ------------------------------------------------------------------------
C38_Answer ==
    \A r \in Requests :
        (health[r].pc = "select" /\ health'[r].pc = "done") =>
            /\ (health[r].errCh # <<>> /\ health[r].ctx = "live") =>
                   /\ health'[r].from = "errCh"
                   /\ health'[r].status = IF health[r].ping = "nil" THEN 200 ELSE 503
            /\ health[r].errCh = <<>> =>
                   (health'[r].from = "ctx" /\ health'[r].status = 503)
            /\ health'[r].status = 200 =>
                   (health[r].errCh = <<"nil">> /\ health[r].ping = "nil")

C38_Buffer == \A r \in Requests : Len(health[r].errCh) <= ErrChCap

====
